---------------------------- MODULE Spec2Model ----------------------------
(***************************************************************************)
(* A model of the mlscript tree-walking interpreter                        *)
(* (src/interpreter/core.py): the C3 method-resolution subsystem, the      *)
(* class / instance / bound-method object model, the generalized           *)
(* call-binding algorithm of Interpreter._call_function and the non-local  *)
(* control transfer (return / break / continue / throw / runtime error)    *)
(* through for loops, try/catch/finally statements and calls.              *)
(*                                                                         *)
(* The Python call stack of active visit_* handlers is the variable        *)
(* cstack; a raised Python exception is the variable signal; the program   *)
(* being interpreted is nondeterministic: wherever a block of statements   *)
(* is running, its next statement may be any statement of the language     *)
(* that the model covers.                                                  *)
(***************************************************************************)
EXTENDS Naturals, Sequences, FiniteSets, TLC

VARIABLES
    scopes,                 \* Evaluator scope stack: sequence of frames
    method_context_stack,   \* Interpreter.method_context_stack
    functions,              \* Interpreter.functions: name -> FunctionDef
    classes,                \* heap of MlscriptClass objects, by identity
    instances,              \* heap of MlscriptInstance objects, by identity
    cstack,                 \* active visit_* / _call_function activations
    signal,                 \* the Python exception in flight, if any
    frontend,               \* Interpreter.run: the code, its tokens, the parse
    grad_enabled,           \* the flag last given to Evaluator.set_grad_enabled
    ev                      \* history: what the last step did

vars == <<scopes, method_context_stack, functions, classes, instances,
          cstack, signal, frontend, grad_enabled, ev>>

(***************************************************************************)
(* Bounds of the model.                                                    *)
(***************************************************************************)
MaxClasses == 4     \* classes defined in the MRO specification
MaxParents == 2     \* parents listed by one class declaration
MaxDepth == 2       \* nested activations (calls, loops, try statements)
MaxInstances == 1   \* instances created
MaxIter == 2        \* items of a for loop's iterable
MaxScopes == MaxDepth + 1   \* scope frames, the global frame included

(***************************************************************************)
(* Values.                                                                 *)
(***************************************************************************)
Num(n) == [t |-> "num", v |-> n]
Inst(i) == [t |-> "inst", v |-> i]
Cls(k) == [t |-> "class", v |-> k]
Host == [t |-> "host", v |-> 0]
None == [t |-> "none", v |-> 0]
Undefined == [t |-> "undef", v |-> 0]

(***************************************************************************)
(* The Evaluator's variable storage.                                       *)
(***************************************************************************)
EmptyFrame == [n \in {} |-> None]

enter_scope(s) == Append(s, EmptyFrame)

exit_scope_twice(s) == SubSeq(s, 1, Len(s) - 2)

exit_scope(s) == SubSeq(s, 1, Len(s) - 1)

\* The index of the nearest frame that holds name n, 0 when none does.
FrameOf(s, n) ==
    LET holds == {i \in 1..Len(s) : n \in DOMAIN s[i]}
    IN  IF holds = {} THEN 0 ELSE CHOOSE i \in holds : \A j \in holds : j <= i

assign_variable(s, n, v) ==
    LET i == FrameOf(s, n)
    IN  IF i = 0
        THEN [s EXCEPT ![Len(s)] = (n :> v) @@ @]
        ELSE [s EXCEPT ![i] = [@ EXCEPT ![n] = v]]

get_variable(s, n) ==
    IF FrameOf(s, n) = 0 THEN Undefined ELSE s[FrameOf(s, n)][n]

(***************************************************************************)
(* C3 linearization.                                                       *)
(***************************************************************************)
InSeq(x, s) == \E i \in 1..Len(s) : s[i] = x

\* The position of the first x in s, 0 when s does not hold x.
IndexOf(x, s) ==
    IF ~InSeq(x, s) THEN 0
    ELSE CHOOSE i \in 1..Len(s) : s[i] = x /\ \A j \in 1..(i - 1) : s[j] # x

NonEmptyLists(lists) == SelectSeq(lists, LAMBDA l : l # <<>>)

\* A variant of the test below that takes every head for good.
IsGoodHeadAnywhere(head, lists) == TRUE

\* A head is good when it is in the tail of none of the lists.
IsGoodHead(head, lists) ==
    \A j \in 1..Len(lists) : ~InSeq(head, Tail(lists[j]))

\* The first list whose head is good, 0 when there is none.
GoodHeadIndex(lists) ==
    LET good == {i \in 1..Len(lists) : IsGoodHead(lists[i][1], lists)}
    IN  IF good = {} THEN 0 ELSE CHOOSE i \in good : \A j \in good : i <= j

\* A variant of the removal below that takes the head off the first list
\* that starts with it and leaves the other lists as they are.
RemoveHeadOfFirst(head, lists) ==
    LET first == CHOOSE j \in 1..Len(lists) :
                     lists[j][1] = head /\ \A l \in 1..(j - 1) : lists[l][1] # head
    IN  [j \in 1..Len(lists) |-> IF j = first THEN Tail(lists[j]) ELSE lists[j]]

RemoveHead(head, lists) ==
    [j \in 1..Len(lists) |->
        IF lists[j][1] = head THEN Tail(lists[j]) ELSE lists[j]]

MROFailure == [ok |-> FALSE, mro |-> <<>>]

RECURSIVE MergeLoop(_, _)
MergeLoop(mro_list_copy, result) ==
    LET lists == NonEmptyLists(mro_list_copy)
    IN  IF lists = <<>>
        THEN [ok |-> TRUE, mro |-> result]
        ELSE LET g == GoodHeadIndex(lists)
             IN  IF g = 0
                 THEN MROFailure
                 ELSE MergeLoop(RemoveHead(lists[g][1], lists),
                                Append(result, lists[g][1]))

_merge(mro_list) ==
    IF \A i \in 1..Len(mro_list) : mro_list[i] = <<>>
    THEN [ok |-> TRUE, mro |-> <<>>]
    ELSE MergeLoop(mro_list, <<>>)

\* The MRO of a new class with identity k and resolved parents.
resolve(k, parents) ==
    LET parent_mros == [i \in 1..Len(parents) |-> classes[parents[i]].mro]
        merged == _merge(parent_mros)
    IN  [ok |-> merged.ok, mro |-> <<k>> \o merged.mro]

(***************************************************************************)
(* Classes, instances and method lookup.                                   *)
(***************************************************************************)
\* MlscriptClass.find_method: the first class of k's MRO whose own method
\* table holds name, with the method found there.
NotFound == [found |-> FALSE, cls |-> 0, name |-> ""]

RECURSIVE ScanMRO(_, _, _)
ScanMRO(mro, i, name) ==
    IF i > Len(mro) THEN NotFound
    ELSE IF name \in DOMAIN classes[mro[i]].methods
         THEN [found |-> TRUE, cls |-> mro[i], name |-> name]
         ELSE ScanMRO(mro, i + 1, name)

find_method(k, name) == ScanMRO(classes[k].mro, 1, name)

\* The FunctionDef node a lookup result stands for.
MethodNode(found) == classes[found.cls].methods[found.name]

\* MlscriptInstance.__init__: an instance of class k with no fields yet.
MlscriptInstance(k) == [klass |-> k, fields |-> [n \in {} |-> None]]

(***************************************************************************)
(* Function definitions and calls.                                         *)
(***************************************************************************)
NoDefault == [k |-> "none", v |-> None, n |-> ""]
ConstDefault(x) == [k |-> "const", v |-> x, n |-> ""]
VarDefault(name) == [k |-> "var", v |-> None, n |-> name]

Param(name, default) == [name |-> name, default |-> default]
FunctionDef(name, params) == [name |-> name, params |-> params]

ParamNames(params) == [i \in 1..Len(params) |-> params[i].name]
KwKeys(kwargs) == {kwargs[i].key : i \in 1..Len(kwargs)}

BindResult(err, params, final_args) ==
    [err |-> err, params |-> params, final_args |-> final_args]

\* Step 1 of _call_function: the receiver takes the first parameter, which
\* is then removed from the parameters still to be matched.
BindReceiver(func_def, instance) ==
    IF instance = 0
    THEN BindResult("none", func_def.params, EmptyFrame)
    ELSE IF func_def.params = <<>>
         THEN BindResult("no_self", <<>>, EmptyFrame)
         ELSE BindResult("none", Tail(func_def.params),
                         func_def.params[1].name :> Inst(instance))

\* A variant of step 2 that drops the positional arguments no parameter is
\* left for.
RECURSIVE BindPositionalLoose(_, _, _, _, _)
BindPositionalLoose(i, args, kwargs, params, final_args) ==
    IF i > Len(args) \/ i > Len(params) THEN BindResult("none", params, final_args)
    ELSE IF params[i].name \in KwKeys(kwargs)
         THEN BindResult("multiple", params, final_args)
         ELSE BindPositionalLoose(i + 1, args, kwargs, params,
                                  (params[i].name :> args[i]) @@ final_args)

\* Step 2: positional arguments, left to right.
RECURSIVE BindPositional(_, _, _, _, _)
BindPositional(i, args, kwargs, params, final_args) ==
    IF i > Len(args) THEN BindResult("none", params, final_args)
    ELSE IF i > Len(params) THEN BindResult("too_many", params, final_args)
    ELSE IF params[i].name \in KwKeys(kwargs)
         THEN BindResult("multiple", params, final_args)
         ELSE BindPositional(i + 1, args, kwargs, params,
                             (params[i].name :> args[i]) @@ final_args)

\* A variant of step 3 that gives the i-th keyword argument to the i-th
\* parameter, whatever its name.
RECURSIVE BindKeywordsByPosition(_, _, _, _)
BindKeywordsByPosition(i, kwargs, params, final_args) ==
    IF i > Len(kwargs) THEN BindResult("none", params, final_args)
    ELSE IF i > Len(params) THEN BindResult("unexpected", params, final_args)
    ELSE IF params[i].name \in DOMAIN final_args
         THEN BindResult("multiple", params, final_args)
         ELSE BindKeywordsByPosition(i + 1, kwargs, params,
                                     (params[i].name :> kwargs[i].value) @@ final_args)

\* Step 3: keyword arguments, in the order the dict holds them.
RECURSIVE BindKeywords(_, _, _, _)
BindKeywords(i, kwargs, params, final_args) ==
    IF i > Len(kwargs) THEN BindResult("none", params, final_args)
    ELSE IF ~InSeq(kwargs[i].key, ParamNames(params))
         THEN BindResult("unexpected", params, final_args)
    ELSE IF kwargs[i].key \in DOMAIN final_args
         THEN BindResult("multiple", params, final_args)
         ELSE BindKeywords(i + 1, kwargs, params,
                           (kwargs[i].key :> kwargs[i].value) @@ final_args)

BindArgs(func_def, args, kwargs, instance) ==
    LET r1 == BindReceiver(func_def, instance)
    IN  IF r1.err # "none" THEN r1
        ELSE LET r2 == BindPositional(1, args, kwargs, r1.params, r1.final_args)
             IN  IF r2.err # "none" THEN r2
                 ELSE BindKeywords(1, kwargs, r2.params, r2.final_args)

\* visit(default_node) for the default expressions the model covers: a
\* literal or a variable, read in the scopes as they are at that moment.
EvalDefault(default, s) ==
    IF default.k = "const" THEN default.v ELSE get_variable(s, default.n)

\* The parameter loop inside the callee's new scope.
RECURSIVE AssignParams(_, _, _, _, _)
AssignParams(params, i, final_args, instance, s) ==
    IF i > Len(params) THEN [err |-> "none", scopes |-> s]
    ELSE IF params[i].name \in DOMAIN final_args
         THEN AssignParams(params, i + 1, final_args, instance,
                  assign_variable(s, params[i].name, final_args[params[i].name]))
    ELSE IF params[i].default.k # "none"
         THEN IF EvalDefault(params[i].default, s) = Undefined
              THEN [err |-> "undefined", scopes |-> s]
              ELSE AssignParams(params, i + 1, final_args, instance,
                       assign_variable(s, params[i].name,
                                       EvalDefault(params[i].default, s)))
    ELSE IF instance # 0 /\ params[i].name = params[1].name
         THEN AssignParams(params, i + 1, final_args, instance, s)
         ELSE [err |-> "missing", scopes |-> s]

(***************************************************************************)
(* Activations, signals and the history variable.                          *)
(***************************************************************************)
NoSignal == [kind |-> "none", value |-> None]
Signal(kind, value) == [kind |-> kind, value |-> value]
RuntimeError == Signal("error", None)

Call(t, func_def, args, kwargs, instance, defining_class) ==
    [t |-> t, func_def |-> func_def, args |-> args, kwargs |-> kwargs,
     instance |-> instance, defining_class |-> defining_class]
NoCall == Call("none", FunctionDef("", <<>>), <<>>, <<>>, 0, 0)

\* One activation of _call_function, visit_ForStatement or visit_TryCatch.
\* pc is the block of the statement that is running, iter the number of the
\* loop's current iteration, pending the exception a finally clause holds
\* back.  d0 and m0 are the depths of the scope stack and of the method
\* context stack when the activation began, finRuns the number of times the
\* finally block was started: the interpreter keeps none of the three.
Frame(kind, pc, call, var) ==
    [kind |-> kind, pc |-> pc, call |-> call, var |-> var, iter |-> 0,
     pending |-> NoSignal, finRuns |-> 0,
     d0 |-> Len(scopes), m0 |-> Len(method_context_stack)]

CallFrame(c) == Frame("call", "body", c, "")
ForFrame(var) == Frame("for", "body", NoCall, var)
TryFrame(var) == Frame("try", "try", NoCall, var)
NoFrame == [Frame("none", "", NoCall, "") EXCEPT !.d0 = 0, !.m0 = 0]

\* What the last step did: op to the activation f, because of how, with
\* value val.  hasCatch and hasFinally are TRUE when the step asked the try
\* statement's node for that block and found one.
Ev(op, f, how, val) ==
    [op |-> op, kind |-> f.kind, pc |-> f.pc, call |-> f.call,
     d0 |-> f.d0, m0 |-> f.m0, finRuns |-> f.finRuns,
     how |-> how, val |-> val, hasCatch |-> FALSE, hasFinally |-> FALSE]

Top == cstack[Len(cstack)]
Pop(st) == SubSeq(st, 1, Len(st) - 1)
SetTop(f) == [cstack EXCEPT ![Len(cstack)] = f]

Running == signal.kind = "none"
AtTopLevel == cstack = <<>>
TopIs(kind, pc) == cstack # <<>> /\ Top.kind = kind /\ Top.pc = pc
ExitHow(sig) == IF sig.kind = "none" THEN "normal" ELSE sig.kind

\* Interpreter.run has been given no code yet.
Idle ==
    [stage |-> "idle", code |-> <<>>, pos |-> 1, line |-> 1, tokens |-> <<>>,
     statements |-> <<>>, index |-> <<>>, trees |-> <<>>, prog |-> TRUE,
     next |-> 1]

(***************************************************************************)
(* Interpreter.__init__: one global frame holding the host names, of which *)
(* the model keeps len; no program of the specifications below assigns or  *)
(* reads a host name.                                                      *)
(***************************************************************************)
Init ==
    /\ scopes = << "len" :> Host >>
    /\ method_context_stack = <<>>
    /\ functions = EmptyFrame
    /\ classes = <<>>
    /\ instances = <<>>
    /\ cstack = <<>>
    /\ signal = NoSignal
    /\ grad_enabled = TRUE
    /\ frontend = Idle
    /\ ev = Ev("init", NoFrame, "", None)

(***************************************************************************)
(* Declarations.                                                           *)
(***************************************************************************)
ClassNames == <<"A", "B", "C", "D", "E", "F">>

\* Sequences without repetition of at most n elements of S.
RECURSIVE DistinctSeqs(_, _)
DistinctSeqs(S, n) ==
    IF n = 0 THEN {<<>>}
    ELSE LET shorter == DistinctSeqs(S, n - 1)
         IN  shorter \cup
             {Append(q, x) : <<q, x>> \in
                 {qx \in shorter \X S :
                     Len(qx[1]) = n - 1 /\ ~InSeq(qx[2], qx[1])}}

visit_FunctionDef(defs) ==
    /\ Running
    /\ \E fd \in defs :
          /\ functions' = (fd.name :> fd) @@ functions
          /\ ev' = Ev("fundef", NoFrame, fd.name, None)
    /\ UNCHANGED <<scopes, method_context_stack, classes, instances, cstack, signal,
                   frontend, grad_enabled>>

\* visit_ClassDef with every parent expression naming a visible class.
visit_ClassDef(maxClasses, methodTables) ==
    /\ Running
    /\ Len(classes) < maxClasses
    /\ Len(classes) < Len(ClassNames)
    /\ \E parents \in DistinctSeqs(1..Len(classes), MaxParents),
          methods \in methodTables :
          LET k == Len(classes) + 1
              name == ClassNames[k]
              r == resolve(k, parents)
          IN  /\ \A i \in 1..Len(parents) :
                    get_variable(scopes, classes[parents[i]].name) = Cls(parents[i])
              /\ IF r.ok
                 THEN /\ classes' = Append(classes,
                            [name |-> name, parents |-> parents,
                             methods |-> methods, mro |-> r.mro])
                      /\ scopes' = assign_variable(scopes, name, Cls(k))
                      /\ signal' = signal
                      /\ ev' = Ev("classdef", NoFrame, name, Cls(k))
                 ELSE /\ signal' = RuntimeError
                      /\ ev' = Ev("classdef_error", NoFrame, name, None)
                      /\ UNCHANGED <<classes, scopes, grad_enabled>>
    /\ UNCHANGED <<method_context_stack, functions, instances, cstack,
                   frontend, grad_enabled>>

\* visit_ClassDef with a parent expression that is not a class.
visit_ClassDef_not_a_class ==
    /\ Running
    /\ signal' = RuntimeError
    /\ ev' = Ev("classdef_error", NoFrame, "inherits", None)
    /\ UNCHANGED <<scopes, method_context_stack, functions, classes, instances, cstack,
                   frontend, grad_enabled>>

(***************************************************************************)
(* Calls.                                                                  *)
(***************************************************************************)
\* Room for one more activation and one more scope frame.
Room == Len(cstack) < MaxDepth /\ Len(scopes) < MaxScopes

\* Whether _call_function raises before the body starts.
CallFails(c) ==
    LET b == BindArgs(c.func_def, c.args, c.kwargs, c.instance)
    IN  \/ b.err # "none"
        \/ AssignParams(b.params, 1, b.final_args, c.instance,
                        enter_scope(scopes)).err # "none"

\* Interpreter._call_function up to the start of the body.
_call_function(c) ==
    LET b == BindArgs(c.func_def, c.args, c.kwargs, c.instance)
        r == AssignParams(b.params, 1, b.final_args, c.instance,
                          enter_scope(scopes))
    IN  IF b.err # "none"
        THEN /\ signal' = RuntimeError
             /\ ev' = Ev("callerr", CallFrame(c), b.err, None)
             /\ UNCHANGED <<scopes, method_context_stack, cstack, grad_enabled>>
        ELSE IF r.err # "none"
        THEN \* the finally clause: exit_scope, and the context popped again
             /\ scopes' = exit_scope(r.scopes)
             /\ method_context_stack' = method_context_stack
             /\ signal' = RuntimeError
             /\ ev' = Ev("callerr", CallFrame(c), r.err, None)
             /\ UNCHANGED cstack
        ELSE /\ scopes' = r.scopes
             /\ method_context_stack' =
                    IF c.instance # 0
                    THEN Append(method_context_stack,
                                <<c.instance, c.defining_class>>)
                    ELSE method_context_stack
             /\ cstack' = Append(cstack, CallFrame(c))
             /\ signal' = signal
             /\ ev' = Ev("call", CallFrame(c), "", None)

\* visit_FunctionCall whose callee names a user-defined function.
visit_FunctionCall_function(argLists, kwLists) ==
    /\ Running /\ Room
    /\ \E name \in DOMAIN functions, args \in argLists, kwargs \in kwLists :
          _call_function(Call("fun", functions[name], args, kwargs, 0, 0))
    /\ UNCHANGED <<functions, classes, instances, frontend, grad_enabled>>

\* visit_AttributeAccess on an instance, for a name that is a method, and
\* the call of the MlscriptBoundMethod it returns.
visit_FunctionCall_method(names, argLists, kwLists) ==
    /\ Running /\ Room
    /\ \E i \in 1..Len(instances), name \in names,
          args \in argLists, kwargs \in kwLists :
          LET found == find_method(instances[i].klass, name)
          IN  IF found.found
              THEN _call_function(Call("method", MethodNode(found), args,
                                       kwargs, i, found.cls))
              ELSE /\ signal' = RuntimeError
                   /\ ev' = Ev("no_attribute", NoFrame, name, Inst(i))
                   /\ UNCHANGED <<scopes, method_context_stack, cstack,
                                  grad_enabled>>
    /\ UNCHANGED <<functions, classes, instances, frontend, grad_enabled>>

\* visit_FunctionCall whose callee is a class: MlscriptClass.__call__.
visit_FunctionCall_class(argLists, kwLists) ==
    /\ Running /\ Room
    /\ Len(instances) < MaxInstances
    /\ \E k \in 1..Len(classes), args \in argLists, kwargs \in kwLists :
          LET i == Len(instances) + 1
              found == find_method(k, "init")
              c == Call("class", MethodNode(found), args, kwargs, i, found.cls)
          IN  /\ get_variable(scopes, classes[k].name) = Cls(k)
              /\ IF found.found
                 THEN /\ _call_function(c)
                      /\ instances' = IF CallFails(c) THEN instances
                                      ELSE Append(instances, MlscriptInstance(k))
                 ELSE IF Len(args) > 0 \/ Len(kwargs) > 0
                 THEN /\ signal' = RuntimeError
                      /\ ev' = Ev("callerr", NoFrame, "no_arguments", Cls(k))
                      /\ UNCHANGED <<scopes, method_context_stack, cstack, instances,
                                     grad_enabled>>
                 ELSE /\ instances' = Append(instances, MlscriptInstance(k))
                      /\ ev' = Ev("new", NoFrame, "", Inst(i))
                      /\ UNCHANGED <<scopes, method_context_stack, cstack, signal,
                                     grad_enabled>>
    /\ UNCHANGED <<functions, classes, frontend, grad_enabled>>

\* A variant of the end of a call that pops the method context only when
\* the body ended normally or by return.
CallFinishNoFinally(how, val, sig) ==
    /\ scopes' = exit_scope(scopes)
    /\ method_context_stack' =
           IF Top.call.instance # 0 /\ how \in {"normal", "return"}
           THEN Pop(method_context_stack) ELSE method_context_stack
    /\ cstack' = Pop(cstack)
    /\ signal' = sig
    /\ ev' = Ev("exit", Top, how, val)
    /\ UNCHANGED <<functions, classes, instances, frontend, grad_enabled>>

\* The finally clause of _call_function, and the activation's end.
CallFinish(how, val, sig) ==
    /\ scopes' = exit_scope(scopes)
    /\ method_context_stack' =
           IF Top.call.instance # 0
           THEN Pop(method_context_stack) ELSE method_context_stack
    /\ cstack' = Pop(cstack)
    /\ signal' = sig
    /\ ev' = Ev("exit", Top, how, val)
    /\ UNCHANGED <<functions, classes, instances, frontend, grad_enabled>>

\* What the call expression yields when _call_function returns v: the call
\* of a class discards what init returns and yields the new instance.
CallValue(c, v) == IF c.t = "class" THEN Inst(c.instance) ELSE v

\* The body ran to its end: visit_Block returns None.
CallBodyEnd ==
    /\ Running /\ TopIs("call", "body")
    /\ CallFinish("normal", CallValue(Top.call, None), NoSignal)

\* An exception reaches _call_function: ReturnSignal ends the call with its
\* value, anything else goes on to the caller.
CallHandle ==
    /\ ~Running /\ TopIs("call", "body")
    /\ IF signal.kind = "return"
       THEN CallFinish("return", CallValue(Top.call, signal.value), NoSignal)
       ELSE CallFinish(signal.kind, None, signal)

(***************************************************************************)
(* Statements that raise.                                                  *)
(***************************************************************************)
Raise(sig) ==
    /\ Running
    /\ signal' = sig
    /\ ev' = Ev("raise", NoFrame, sig.kind, sig.value)
    /\ UNCHANGED <<scopes, method_context_stack, functions, classes, instances, cstack,
                   frontend, grad_enabled>>

visit_ReturnStatement(values) == \E v \in values : Raise(Signal("return", v))
visit_ThrowStatement(values) == \E v \in values : Raise(Signal("throw", v))
visit_BreakStatement == Raise(Signal("break", None))
visit_ContinueStatement == Raise(Signal("continue", None))
\* visit_Variable of a name no frame holds.
visit_Variable_undefined == Raise(RuntimeError)

(***************************************************************************)
(* visit_ForStatement                                                      *)
(* The iterable is the list [1, ..., n] for some n <= MaxIter; what the    *)
(* loop learns of n is whether there is a next item, when it asks for one. *)
(***************************************************************************)
\* "except BreakSignal: break" and "except ContinueSignal: continue": the
\* exception is handled by the loop that catches it and goes no further.
ExceptLoopSignalReraised(sig) == sig

ExceptLoopSignal(sig) == NoSignal

\* The loop variable takes the next item, in the frame the loop entered
\* before its first iteration.
ForItemFreshScope(s, var, item) ==
    assign_variable(enter_scope(exit_scope(s)), var, item)

ForItem(s, var, item) == assign_variable(s, var, item)

\* The loop takes its next item, or ends and leaves its scope.
ForAdvance(how) ==
    /\ \E more \in BOOLEAN :
          IF more /\ Top.iter < MaxIter
          THEN /\ scopes' = ForItem(scopes, Top.var, Num(Top.iter + 1))
               /\ cstack' = SetTop([Top EXCEPT !.iter = @ + 1])
               /\ ev' = Ev("iter", Top, how, Num(Top.iter + 1))
          ELSE /\ scopes' = exit_scope(scopes)
               /\ cstack' = Pop(cstack)
               /\ ev' = Ev("exit", Top, how, None)
    /\ signal' = ExceptLoopSignal(signal)
    /\ UNCHANGED <<method_context_stack, functions, classes, instances,
                   frontend, grad_enabled>>

\* The statement begins: the iterable is a list, the scope is entered and
\* the first iteration starts (with an empty list the loop ends at once).
visit_ForStatement(var) ==
    /\ Running /\ Room
    /\ \E more \in BOOLEAN :
          IF more
          THEN /\ scopes' = assign_variable(enter_scope(scopes), var, Num(1))
               /\ cstack' = Append(cstack, [ForFrame(var) EXCEPT !.iter = 1])
               /\ ev' = Ev("enter", ForFrame(var), "", Num(1))
          ELSE /\ ev' = Ev("exit", ForFrame(var), "normal", None)
               /\ UNCHANGED <<scopes, cstack, grad_enabled>>
    /\ UNCHANGED <<method_context_stack, functions, classes, instances, signal,
                   frontend, grad_enabled>>

\* The iterable is not a list, string, range or tuple.
visit_ForStatement_not_iterable ==
    /\ Running
    /\ signal' = RuntimeError
    /\ ev' = Ev("raise", NoFrame, "not_iterable", None)
    /\ UNCHANGED <<scopes, method_context_stack, functions, classes, instances, cstack,
                   frontend, grad_enabled>>

ForBodyEnd ==
    /\ Running /\ TopIs("for", "body")
    /\ ForAdvance("normal")

\* An exception reaches the loop: BreakSignal and ContinueSignal are
\* handled, anything else leaves visit_ForStatement as it is.
ForHandle ==
    /\ ~Running /\ TopIs("for", "body")
    /\ IF signal.kind = "break"
       THEN /\ scopes' = exit_scope(scopes)
            /\ cstack' = Pop(cstack)
            /\ signal' = ExceptLoopSignal(signal)
            /\ ev' = Ev("exit", Top, "break", None)
            /\ UNCHANGED <<method_context_stack, functions, classes, instances,
                   frontend, grad_enabled>>
       ELSE IF signal.kind = "continue"
       THEN ForAdvance("continue")
       ELSE /\ cstack' = Pop(cstack)
            /\ ev' = Ev("exit", Top, signal.kind, None)
            /\ UNCHANGED <<scopes, method_context_stack, functions, classes,
                           instances, signal, frontend, grad_enabled>>

(***************************************************************************)
(* visit_WhileStatement                                                    *)
(* The condition is evaluated before every iteration; what the model keeps *)
(* of it is whether it holds, and it holds at most MaxIter times in a row. *)
(***************************************************************************)
WhileFrame == Frame("while", "body", NoCall, "")

\* The condition is evaluated again: the body starts once more, or the
\* loop ends.  No scope is entered or left.
WhileAdvance(how) ==
    /\ \E condition \in BOOLEAN :
          IF condition /\ Top.iter < MaxIter
          THEN /\ cstack' = SetTop([Top EXCEPT !.iter = @ + 1])
               /\ ev' = Ev("iter", Top, how, Num(Top.iter + 1))
          ELSE /\ cstack' = Pop(cstack)
               /\ ev' = Ev("exit", Top, how, None)
    /\ signal' = ExceptLoopSignal(signal)
    /\ UNCHANGED <<scopes, method_context_stack, functions, classes, instances,
                   frontend, grad_enabled>>

visit_WhileStatement ==
    /\ Running /\ Room
    /\ \E condition \in BOOLEAN :
          IF condition
          THEN /\ cstack' = Append(cstack, [WhileFrame EXCEPT !.iter = 1])
               /\ ev' = Ev("enter", WhileFrame, "", Num(1))
          ELSE /\ ev' = Ev("exit", WhileFrame, "normal", None)
               /\ UNCHANGED cstack
    /\ UNCHANGED <<scopes, method_context_stack, functions, classes, instances,
                   signal, frontend, grad_enabled>>

WhileBodyEnd ==
    /\ Running /\ TopIs("while", "body")
    /\ WhileAdvance("normal")

\* An exception reaches the loop: BreakSignal ends it, ContinueSignal goes
\* on to the next evaluation of the condition, anything else leaves
\* visit_WhileStatement.
WhileHandle ==
    /\ ~Running /\ TopIs("while", "body")
    /\ IF signal.kind = "break"
       THEN /\ cstack' = Pop(cstack)
            /\ signal' = ExceptLoopSignal(signal)
            /\ ev' = Ev("exit", Top, "break", None)
            /\ UNCHANGED <<scopes, method_context_stack, functions, classes,
                           instances, frontend, grad_enabled>>
       ELSE IF signal.kind = "continue"
       THEN WhileAdvance("continue")
       ELSE /\ cstack' = Pop(cstack)
            /\ ev' = Ev("exit", Top, signal.kind, None)
            /\ UNCHANGED <<scopes, method_context_stack, functions, classes,
                           instances, signal, frontend, grad_enabled>>

(***************************************************************************)
(* visit_TryCatch                                                          *)
(* Whether the node has a catch block and a finally block is read when the *)
(* handler first asks for it.                                              *)
(***************************************************************************)
visit_TryCatch(var) ==
    /\ Running /\ Room
    /\ cstack' = Append(cstack, TryFrame(var))
    /\ ev' = Ev("enter", TryFrame(var), "", None)
    /\ UNCHANGED <<scopes, method_context_stack, functions, classes, instances, signal,
                   frontend, grad_enabled>>

\* A variant of the finally clause that runs the finally block only when no
\* exception is in flight.
ToFinallyUnlessRaised(s, sig, hasCatch) ==
    /\ scopes' = s
    /\ \E hasFinally \in BOOLEAN :
          IF hasFinally /\ sig.kind = "none"
          THEN /\ cstack' = SetTop([Top EXCEPT !.pc = "finally", !.pending = sig,
                                               !.finRuns = @ + 1])
               /\ signal' = NoSignal
               /\ ev' = [Ev("finally", Top, ExitHow(sig), sig.value)
                            EXCEPT !.hasCatch = hasCatch, !.hasFinally = TRUE]
          ELSE /\ cstack' = Pop(cstack)
               /\ signal' = sig
               /\ ev' = [Ev("exit", Top, ExitHow(sig), sig.value)
                            EXCEPT !.hasCatch = hasCatch, !.hasFinally = hasFinally]
    /\ UNCHANGED <<method_context_stack, functions, classes, instances,
                   frontend, grad_enabled>>

\* The finally clause of the outer Python try: the finally block runs if
\* there is one, with the exception in flight (if any) held back; without
\* a finally block the statement ends.  s is the scope stack and sig the
\* exception in flight when the clause is reached, hasCatch whether a catch
\* block was found on the way.
ToFinally(s, sig, hasCatch) ==
    /\ scopes' = s
    /\ \E hasFinally \in BOOLEAN :
          IF hasFinally
          THEN /\ cstack' = SetTop([Top EXCEPT !.pc = "finally", !.pending = sig,
                                               !.finRuns = @ + 1])
               /\ signal' = NoSignal
               /\ ev' = [Ev("finally", Top, ExitHow(sig), sig.value)
                            EXCEPT !.hasCatch = hasCatch, !.hasFinally = TRUE]
          ELSE /\ cstack' = Pop(cstack)
               /\ signal' = sig
               /\ ev' = [Ev("exit", Top, ExitHow(sig), sig.value)
                            EXCEPT !.hasCatch = hasCatch, !.hasFinally = FALSE]
    /\ UNCHANGED <<method_context_stack, functions, classes, instances,
                   frontend, grad_enabled>>

TryBodyEnd ==
    /\ Running /\ TopIs("try", "try")
    /\ ToFinally(scopes, NoSignal, FALSE)

\* A variant of the handler below whose except clause takes every exception.
TryHandleCatchAll ==
    /\ ~Running /\ TopIs("try", "try")
    /\ \E hasCatch \in BOOLEAN :
          IF hasCatch
          THEN /\ scopes' = assign_variable(enter_scope(scopes), Top.var, signal.value)
               /\ cstack' = SetTop([Top EXCEPT !.pc = "catch"])
               /\ signal' = NoSignal
               /\ ev' = [Ev("catch", Top, ExitHow(signal), signal.value)
                            EXCEPT !.hasCatch = TRUE]
               /\ UNCHANGED <<method_context_stack, functions, classes, instances,
                   frontend, grad_enabled>>
          ELSE ToFinally(scopes, signal, hasCatch)

\* An exception leaves the try block: MlscriptThrow is caught when there is
\* a catch block, whose body then starts in a new scope with the thrown
\* value assigned to the catch variable.
TryHandle ==
    /\ ~Running /\ TopIs("try", "try")
    /\ \E hasCatch \in BOOLEAN :
          IF signal.kind = "throw" /\ hasCatch
          THEN /\ scopes' = assign_variable(enter_scope(scopes), Top.var, signal.value)
               /\ cstack' = SetTop([Top EXCEPT !.pc = "catch"])
               /\ signal' = NoSignal
               /\ ev' = [Ev("catch", Top, ExitHow(signal), signal.value)
                            EXCEPT !.hasCatch = TRUE]
               /\ UNCHANGED <<method_context_stack, functions, classes, instances,
                   frontend, grad_enabled>>
          ELSE ToFinally(scopes, signal, hasCatch)

CatchBodyEnd ==
    /\ Running /\ TopIs("try", "catch")
    /\ ToFinally(exit_scope(scopes), NoSignal, TRUE)

\* An exception leaves the catch block: exit_scope is not reached.
CatchHandle ==
    /\ ~Running /\ TopIs("try", "catch")
    /\ ToFinally(scopes, signal, TRUE)

\* The finally block ran to its end: the exception held back is raised again.
FinallyBodyEnd ==
    /\ Running /\ TopIs("try", "finally")
    /\ cstack' = Pop(cstack)
    /\ signal' = Top.pending
    /\ ev' = [Ev("exit", Top, ExitHow(Top.pending), Top.pending.value)
                 EXCEPT !.hasFinally = TRUE]
    /\ UNCHANGED <<scopes, method_context_stack, functions, classes, instances,
                   frontend, grad_enabled>>

\* An exception leaves the finally block and replaces the one held back.
FinallyHandle ==
    /\ ~Running /\ TopIs("try", "finally")
    /\ cstack' = Pop(cstack)
    /\ ev' = [Ev("exit", Top, signal.kind, signal.value) EXCEPT !.hasFinally = TRUE]
    /\ UNCHANGED <<scopes, method_context_stack, functions, classes, instances, signal,
                   frontend, grad_enabled>>

(***************************************************************************)
(* The top-level driver: an exception that leaves Interpreter.run is       *)
(* reported by the REPL, which then reads the next unit.                   *)
(***************************************************************************)
RunAbort ==
    /\ AtTopLevel
    /\ ~Running
    /\ signal' = NoSignal
    /\ ev' = Ev("abort", NoFrame, signal.kind, signal.value)
    /\ UNCHANGED <<scopes, method_context_stack, functions, classes, instances, cstack,
                   frontend, grad_enabled>>

(***************************************************************************)
(* Specification of class definition: programs that only declare classes.  *)
(***************************************************************************)
NextMRO ==
    \/ visit_ClassDef(MaxClasses, {EmptyFrame})
    \/ visit_ClassDef_not_a_class
    \/ RunAbort

SpecMRO == Init /\ [][NextMRO]_vars

(***************************************************************************)
(* Specification of control flow: programs that declare one function and   *)
(* one class with one method at the top level and are otherwise built from *)
(* for loops, try statements, calls and the statements that raise.         *)
(***************************************************************************)
ThrowValues == {Num(1), Num(2)}
ReturnValues == {Num(1)}

G_def == FunctionDef("g", <<>>)
M_def == FunctionDef("m", <<Param("self", NoDefault)>>)

Next ==
    \/ AtTopLevel /\ visit_FunctionDef({G_def})
    \/ AtTopLevel /\ visit_ClassDef(1, {"m" :> M_def})
    \/ AtTopLevel /\ visit_FunctionCall_class({<<>>}, {<<>>})
    \/ visit_FunctionCall_function({<<>>}, {<<>>})
    \/ visit_FunctionCall_method({"m"}, {<<>>}, {<<>>})
    \/ CallBodyEnd
    \/ CallHandle
    \/ visit_ForStatement("x")
    \/ visit_ForStatement_not_iterable
    \/ ForBodyEnd
    \/ ForHandle
    \/ visit_WhileStatement
    \/ WhileBodyEnd
    \/ WhileHandle
    \/ visit_TryCatch("e")
    \/ TryBodyEnd
    \/ TryHandle
    \/ CatchBodyEnd
    \/ CatchHandle
    \/ FinallyBodyEnd
    \/ FinallyHandle
    \/ visit_ReturnStatement(ReturnValues)
    \/ visit_ThrowStatement(ThrowValues)
    \/ visit_BreakStatement
    \/ visit_ContinueStatement
    \/ visit_Variable_undefined
    \/ RunAbort

Spec == Init /\ [][Next]_vars

(***************************************************************************)
(* visit_SuperNode, visit_AttributeAccess on the pair it returns, and the  *)
(* call of the bound method: the statement  super.name(args)               *)
(***************************************************************************)
\* The frame-less activation of a step that pushes nothing: it records the
\* depths of the two stacks when the step began.
Here == Frame("none", "", NoCall, "")

visit_FunctionCall_super(names, argLists, kwLists) ==
    /\ Running /\ Room
    /\ \E name \in names, args \in argLists, kwargs \in kwLists :
          IF method_context_stack = <<>>
          THEN /\ signal' = RuntimeError
               /\ ev' = Ev("super_error", Here, "outside_method", None)
               /\ UNCHANGED <<scopes, method_context_stack, cstack, grad_enabled>>
          ELSE LET ctx == method_context_stack[Len(method_context_stack)]
                   instance == ctx[1]
                   defining_class == ctx[2]
                   instance_mro == classes[instances[instance].klass].mro
                   idx == IndexOf(defining_class, instance_mro)
               IN  IF idx = 0 \/ idx + 1 > Len(instance_mro)
                   THEN /\ signal' = RuntimeError
                        /\ ev' = Ev("super_error", Here, "no_superclass", None)
                        /\ UNCHANGED <<scopes, method_context_stack, cstack,
                                       grad_enabled>>
                   ELSE LET search_start_class == instance_mro[idx + 1]
                            found == find_method(search_start_class, name)
                        IN  IF ~found.found
                            THEN /\ signal' = RuntimeError
                                 /\ ev' = Ev("super_error", Here, "no_method", None)
                                 /\ UNCHANGED <<scopes, method_context_stack, cstack,
                                                grad_enabled>>
                            ELSE _call_function(Call("super", MethodNode(found),
                                     args, kwargs, instance, found.cls))
    /\ UNCHANGED <<functions, classes, instances, frontend, grad_enabled>>

(***************************************************************************)
(* Specification of super: programs that declare a hierarchy of classes,   *)
(* each with or without a method m, create an instance and call m, whose   *)
(* body may call super.m.                                                  *)
(***************************************************************************)
MaxHier == 3    \* classes of the hierarchy

NextSuper ==
    \/ AtTopLevel /\ visit_ClassDef(MaxHier, {EmptyFrame, "m" :> M_def})
    \/ AtTopLevel /\ visit_FunctionCall_class({<<>>}, {<<>>})
    \/ AtTopLevel /\ visit_FunctionCall_method({"m"}, {<<>>}, {<<>>})
    \/ visit_FunctionCall_super({"m"}, {<<>>}, {<<>>})
    \/ CallBodyEnd
    \/ CallHandle
    \/ RunAbort

SpecSuper == Init /\ [][NextSuper]_vars

(***************************************************************************)
(* Specification of argument binding: programs that declare the functions  *)
(* f, h and g and a class with the methods init, m and z, and call them    *)
(* with the argument lists below.                                          *)
(***************************************************************************)
Kw(key, value) == [key |-> key, value |-> value]

F_def == FunctionDef("f", <<Param("a", NoDefault), Param("b", ConstDefault(Num(2)))>>)
H_def == FunctionDef("h", <<Param("a", NoDefault), Param("b", VarDefault("a"))>>)
Init_def == FunctionDef("init", <<Param("self", NoDefault), Param("a", NoDefault)>>)
N_def == FunctionDef("m", <<Param("self", NoDefault), Param("a", NoDefault),
                            Param("b", ConstDefault(Num(2)))>>)
Z_def == FunctionDef("z", <<>>)
K_methods == ("init" :> Init_def) @@ ("m" :> N_def) @@ ("z" :> Z_def)

ArgLists ==
    {<<>>, <<Num(1)>>, <<Num(1), Num(5)>>, <<Num(5), Num(1)>>,
     <<Num(1), Num(5), Num(1)>>}
KwLists ==
    {<<>>, <<Kw("a", Num(1))>>, <<Kw("b", Num(9))>>, <<Kw("c", Num(1))>>,
     <<Kw("a", Num(1)), Kw("b", Num(9))>>, <<Kw("b", Num(9)), Kw("a", Num(1))>>}

NextCall ==
    \/ AtTopLevel /\ visit_FunctionDef({F_def, H_def, G_def})
    \/ AtTopLevel /\ visit_ClassDef(1, {K_methods})
    \/ visit_FunctionCall_class(ArgLists, KwLists)
    \/ visit_FunctionCall_function(ArgLists, KwLists)
    \/ visit_FunctionCall_method({"m", "z"}, ArgLists, KwLists)
    \/ visit_ReturnStatement(ReturnValues)
    \/ visit_Variable_undefined
    \/ CallBodyEnd
    \/ CallHandle
    \/ RunAbort

SpecCall == Init /\ [][NextCall]_vars

(***************************************************************************)
(* Loops and assignments: programs made of for and while statements,       *)
(* assignments, break, continue and reads of undefined names.              *)
(***************************************************************************)
visit_Assign(names, values) ==
    /\ Running
    /\ \E n \in names, v \in values :
          /\ scopes' = assign_variable(scopes, n, v)
          /\ ev' = Ev("assign", NoFrame, n, v)
    /\ UNCHANGED <<method_context_stack, functions, classes, instances, cstack,
                   signal, frontend, grad_enabled>>

NextLoop ==
    \/ visit_Assign({"y", "z"}, {Num(1), Num(2)})
    \/ visit_ForStatement("x")
    \/ ForBodyEnd
    \/ ForHandle
    \/ visit_WhileStatement
    \/ WhileBodyEnd
    \/ WhileHandle
    \/ visit_BreakStatement
    \/ visit_ContinueStatement
    \/ visit_Variable_undefined
    \/ RunAbort

SpecLoop == Init /\ [][NextLoop]_vars

(***************************************************************************)
(* lexer.py: tokenize.  A source text is a sequence of characters; the     *)
(* texts are all those of at most MaxText characters over LexChars, which  *)
(* has a letter, a digit, two operator characters (= also begins ==, /     *)
(* also begins a comment), the blank, the newline, the double quote and @, *)
(* a character of no lexeme.  No keyword and no float can be written with  *)
(* these characters, so their alternatives of token_spec never match.      *)
(***************************************************************************)
MaxText == 4

LexChars == {"a", "1", "=", "/", " ", "\n", "\"", "@"}

Texts == UNION {[1..n -> LexChars] : n \in 0..MaxText}

WordChars == {"a", "1"}

\* The number of characters of code from position p on that are in set S,
\* up to the first that is not.
RECURSIVE RunOf(_, _, _)
RunOf(code, p, S) ==
    IF p > Len(code) \/ code[p] \notin S THEN 0 ELSE 1 + RunOf(code, p + 1, S)

\* int(value) of a run of digits.
RECURSIVE IntOf(_)
IntOf(digits) ==
    IF digits = <<>> THEN 0
    ELSE 10 * IntOf(SubSeq(digits, 1, Len(digits) - 1))
           + (IF digits[Len(digits)] = "1" THEN 1 ELSE 0)

\* token_regex at position p: the first alternative of token_spec that
\* matches there, and the length of its match.
Match(code, p) ==
    LET c == code[p]
        n == IF p < Len(code) THEN code[p + 1] ELSE ""
        closing == {q \in (p + 1)..Len(code) : code[q] = "\""}
    IN  IF c = "/" /\ n = "/"
            THEN [kind |-> "COMMENT", len |-> 2 + RunOf(code, p + 2, LexChars \ {"\n"})]
        ELSE IF c = "\n" THEN [kind |-> "NEWLINE", len |-> 1]
        ELSE IF c = " " THEN [kind |-> "SKIP", len |-> RunOf(code, p, {" "})]
        ELSE IF c = "1" THEN [kind |-> "INTEGER", len |-> RunOf(code, p, {"1"})]
        ELSE IF c = "\"" /\ closing # {}
            THEN [kind |-> "STRING",
                  len |-> (CHOOSE q \in closing : \A r \in closing : q <= r) - p + 1]
        ELSE IF c = "a" THEN [kind |-> "IDENT", len |-> RunOf(code, p, WordChars)]
        ELSE IF c = "=" /\ n = "=" THEN [kind |-> "EQ", len |-> 2]
        ELSE IF c = "=" THEN [kind |-> "ASSIGN", len |-> 1]
        ELSE IF c = "/" THEN [kind |-> "DIV", len |-> 1]
        ELSE [kind |-> "MISMATCH", len |-> 1]

\* The value of a token: the number a literal denotes, a string without its
\* quotes, the matched text otherwise.
TokenValue(kind, text) ==
    IF kind = "INTEGER" THEN [t |-> "int", n |-> IntOf(text), s |-> <<>>]
    ELSE IF kind = "STRING"
        THEN [t |-> "str", n |-> 0, s |-> SubSeq(text, 2, Len(text) - 1)]
    ELSE [t |-> "str", n |-> 0, s |-> text]

Token(kind, value, line) == [kind |-> kind, value |-> value, line |-> line]

NoValue == [t |-> "none", n |-> 0, s |-> <<>>]

\* Interpreter.run(code) calls tokenize(code).
Interpreter_run(texts) ==
    /\ frontend = Idle
    /\ \E code \in texts :
          frontend' = [Idle EXCEPT !.stage = "tokenize", !.code = code]
    /\ UNCHANGED <<scopes, method_context_stack, functions, classes, instances,
                   cstack, signal, ev, grad_enabled>>

\* One match of re.finditer: comments, blanks and mismatches are passed
\* over, a newline counts a line, anything else is a token.
tokenize_match ==
    /\ frontend.stage = "tokenize" /\ frontend.pos <= Len(frontend.code)
    /\ LET mo == Match(frontend.code, frontend.pos)
           text == SubSeq(frontend.code, frontend.pos, frontend.pos + mo.len - 1)
           next == [frontend EXCEPT !.pos = @ + mo.len]
       IN  frontend' =
             IF mo.kind = "COMMENT" THEN next
             ELSE IF mo.kind = "NEWLINE" THEN [next EXCEPT !.line = @ + 1]
             ELSE IF mo.kind \in {"SKIP", "MISMATCH"} THEN next
             ELSE [next EXCEPT !.tokens =
                      Append(@, Token(mo.kind, TokenValue(mo.kind, text), frontend.line))]
    /\ UNCHANGED <<scopes, method_context_stack, functions, classes, instances,
                   cstack, signal, ev, grad_enabled>>

\* The text is exhausted: the end marker is appended and the tokens returned.
tokenize_return ==
    /\ frontend.stage = "tokenize" /\ frontend.pos > Len(frontend.code)
    /\ frontend' = [frontend EXCEPT !.stage = "tokens",
                       !.tokens = Append(@, Token("EOF", NoValue, frontend.line))]
    /\ UNCHANGED <<scopes, method_context_stack, functions, classes, instances,
                   cstack, signal, ev, grad_enabled>>

NextLex ==
    \/ Interpreter_run(Texts)
    \/ tokenize_match
    \/ tokenize_return

SpecLex == Init /\ [][NextLex]_vars

(***************************************************************************)
(* parser.py: the recursive-descent Parser over the kinds of the tokens,   *)
(* run with an explicit stack.  Every function of the Parser is the list   *)
(* of the steps of its body: Eat(kind) is self.eat, Advance self.advance,  *)
(* Do(name) the call of another function or the next test of a loop, and  *)
(* Mk(kind) builds the node the function returns.  The state m of a parse  *)
(* has the cursor pos (from 1), the steps still to do (the Python stack),  *)
(* the kind of the node built last and the kinds of the statements parse   *)
(* has collected; index_exprs has the list index_expr of every activation  *)
(* of call_and_index that is inside square brackets, innermost last, and   *)
(* index the list given to the IndexAccess built last: each component is a *)
(* plain index or a slice with the segments it has.  trees has the         *)
(* expression nodes built that are not yet the child of another expression *)
(* node, oldest first: a node is its class, its operator token and its     *)
(* children.                                                               *)
(* st is "ok" until an error is raised; prog stays TRUE as                 *)
(* long as every call of statement that returned has moved the cursor (the *)
(* Parser keeps no such flag).  Kinds with the same role in the grammar    *)
(* have one representative: INTEGER for FLOAT, TRUE and FALSE, EQ for the  *)
(* six comparisons.                                                        *)
(***************************************************************************)
Goal(g, a, p) == [g |-> g, a |-> a, p |-> p]

Eat(kind) == Goal("eat", kind, 0)

Advance == Goal("advance", "", 0)

Do(name) == Goal("do", name, 0)

\* The call of a local function or the next test of its body, with the
\* segments of the slice parsed so far.
DoSlice(name, segments) == Goal("do", name, segments)

Mk(node) == Goal("node", node, 0)

\* BinOp(node, op_token[1], ...) and UnaryOp(token, ...): the node with its
\* operator.
MkOp(node, op) == Goal("node", node, op)

\* "args = []", "elements = []", "pairs = []": the nodes built from here on
\* are the members of the list.
NewList == Goal("list", "", 0)

\* primary has returned the node of an expression in parentheses.
Parenthesized == Goal("parenthesized", "", 0)

RaiseSyntaxError == Goal("raise", "", 0)

\* Parser.__init__, about to run parse.
Parser(tokens) ==
    [st |-> "ok", pos |-> 1, prog |-> TRUE, node |-> "", statements |-> <<>>,
     index_exprs |-> <<>>, index |-> <<>>, trees |-> <<>>,
     stack |-> <<Do("parse")>>]

\* self.current_token[0]: advance leaves current_token on the last token
\* when pos passes the end of the sequence.
Cur(tk, m) == IF m.pos <= Len(tk) THEN tk[m.pos] ELSE tk[Len(tk)]

parse(cur) ==
    IF cur # "EOF" THEN <<Do("statement"), Goal("append", "", 0), Do("parse")>> ELSE <<>>

print_statement ==
    <<Eat("PRINT"), Eat("LPAREN"), Do("comparison_expression"), Eat("RPAREN"),
      Mk("PrintStatement")>>

\* "( condition ) block" after if, elif and while.
ConditionAndBlock ==
    <<Eat("LPAREN"), Do("comparison_expression"), Eat("RPAREN"), Do("block")>>

if_statement ==
    <<Eat("IF")>> \o ConditionAndBlock
        \o <<Do("ElifLoop"), Do("ElseBlock"), Mk("IfStatement")>>

ElifLoop(cur) ==
    IF cur = "ELIF" THEN <<Eat("ELIF")>> \o ConditionAndBlock \o <<Do("ElifLoop")>>
    ELSE <<>>

ElseBlock(cur) == IF cur = "ELSE" THEN <<Eat("ELSE"), Do("block")>> ELSE <<>>

while_statement == <<Eat("WHILE")>> \o ConditionAndBlock \o <<Mk("WhileStatement")>>

for_statement ==
    <<Eat("FOR"), Eat("IDENT"), Eat("IN"), Do("comparison_expression"), Do("block"),
      Mk("ForStatement")>>

import_statement ==
    <<Eat("IMPORT"), Eat("STRING"), Eat("AS"), Eat("IDENT"), Mk("ImportStatement")>>

function_definition ==
    <<Eat("FUN"), Eat("IDENT"), Eat("LPAREN"), Do("Params"), Eat("RPAREN"),
      Do("block"), Mk("FunctionDef")>>

Params(cur) == IF cur # "RPAREN" THEN <<Eat("IDENT"), Do("ParamLoop")>> ELSE <<>>

ParamLoop(cur) ==
    IF cur = "COMMA" THEN <<Eat("COMMA"), Eat("IDENT"), Do("ParamLoop")>> ELSE <<>>

block == <<Eat("LBRACE"), Do("BlockLoop"), Eat("RBRACE"), Mk("Block")>>

BlockLoop(cur) ==
    IF cur \notin {"RBRACE", "EOF"} THEN <<Do("statement"), Do("BlockLoop")>> ELSE <<>>

\* The left-hand side of an assignment, parsed, is the node lhs: the
\* statement goes on past "=" and the right-hand side and builds the node.
assignment_or_expression_statement == <<Do("comparison_expression"), Do("Assignment")>>

Assignment(cur, lhs) ==
    IF cur = "ASSIGN"
    THEN <<Eat("ASSIGN"), Do("comparison_expression"), Goal("AssignNode", lhs, 0)>>
    ELSE <<>>

\* A Variable gives an Assign, an IndexAccess an IndexAssign, anything else
\* is a SyntaxError.
AssignNode(lhs) ==
    IF lhs = "Variable" THEN <<Mk("Assign")>>
    ELSE IF lhs = "IndexAccess" THEN <<Mk("IndexAssign")>>
    ELSE <<RaiseSyntaxError>>

\* One statement, chosen by the current token; p is the cursor when
\* statement is called.
statement(cur, p) ==
    (IF cur = "PRINT" THEN print_statement
     ELSE IF cur = "FUN" THEN function_definition
     ELSE IF cur = "IF" THEN if_statement
     ELSE IF cur = "WHILE" THEN while_statement
     ELSE IF cur = "FOR" THEN for_statement
     ELSE IF cur = "IMPORT" THEN import_statement
     ELSE IF cur = "RETURN"
         THEN <<Advance, Do("comparison_expression"), Mk("ReturnStatement")>>
     ELSE assignment_or_expression_statement)
        \o <<Goal("returned", "", p)>>

comparison_expression == <<Do("expr"), Do("ComparisonLoop")>>

ComparisonLoop(cur) ==
    IF cur = "EQ" THEN <<Eat("EQ"), Do("expr"), MkOp("BinOp", "EQ"), Do("ComparisonLoop")>>
    ELSE <<>>

expr == <<Do("term"), Do("ExprLoop")>>

ExprLoop(cur) ==
    IF cur \in {"PLUS", "MINUS"}
    THEN <<Eat(cur), Do("term"), MkOp("BinOp", cur), Do("ExprLoop")>>
    ELSE <<>>

term == <<Do("factor"), Do("TermLoop")>>

TermLoop(cur) ==
    IF cur \in {"MUL", "DIV"}
    THEN <<Eat(cur), Do("factor"), MkOp("BinOp", cur), Do("TermLoop")>>
    ELSE <<>>

\* A sign applied to a term: "-a * b" read as "-(a * b)".
factorOfTerm(cur) ==
    IF cur \in {"PLUS", "MINUS"} THEN <<Advance, Do("term"), MkOp("UnaryOp", cur)>>
    ELSE <<Do("call_and_index")>>

factor(cur) ==
    IF cur \in {"PLUS", "MINUS"} THEN <<Advance, Do("factor"), MkOp("UnaryOp", cur)>>
    ELSE <<Do("call_and_index")>>

call_and_index == <<Do("primary"), Do("PostfixLoop")>>

\* The "while True" loop of call_and_index: calls, indexings and attribute
\* accesses applied to the node built so far.
PostfixLoop(cur) ==
    IF cur = "LPAREN"
        THEN <<Eat("LPAREN"), NewList, Do("Arguments"), Eat("RPAREN"), Mk("FunctionCall"),
               Do("PostfixLoop")>>
    ELSE IF cur = "LBRACKET"
        THEN <<Eat("LBRACKET"), Goal("index_expr", "", 0), NewList, Do("Indexes"),
               Eat("RBRACKET"), Goal("IndexAccess", "", 0), Do("PostfixLoop")>>
    ELSE IF cur = "DOT"
        THEN <<Eat("DOT"), Eat("IDENT"), Mk("AttributeAccess"), Do("PostfixLoop")>>
    ELSE <<>>

\* An expression and then, after each comma, one more: the arguments of a
\* call and the elements of a list.
ExpressionList == <<Do("comparison_expression"), Do("ExpressionListLoop")>>

ExpressionListLoop(cur) ==
    IF cur = "COMMA"
    THEN <<Eat("COMMA"), Do("comparison_expression"), Do("ExpressionListLoop")>>
    ELSE <<>>

Arguments(cur) == IF cur # "RPAREN" THEN ExpressionList ELSE <<>>

Indexes(cur) ==
    IF cur # "RBRACKET" THEN <<Do("parse_slice_or_expr"), Do("IndexesLoop")>> ELSE <<>>

IndexesLoop(cur) ==
    IF cur = "COMMA" THEN <<Eat("COMMA"), Do("parse_slice_or_expr"), Do("IndexesLoop")>>
    ELSE <<>>

\* One component of index_expr: what parse_slice_or_expr returns.  The
\* segments of a slice are those of "start", "stop", "step" that are not None.
PlainIndex == [slice |-> FALSE, start |-> TRUE, stop |-> FALSE, step |-> FALSE]

SliceNode(segments) ==
    [slice |-> TRUE, start |-> "start" \in segments, stop |-> "stop" \in segments,
     step |-> "step" \in segments]

parse_slice_or_expr(cur) ==
    IF cur # "COLON"
    THEN <<Do("comparison_expression"), DoSlice("SliceAfterStart", {"start"})>>
    ELSE <<DoSlice("SliceAfterStart", {})>>

SliceAfterStart(cur, segments) ==
    IF cur # "COLON" THEN <<Goal("return_start", "", 0)>>
    ELSE <<Eat("COLON"), DoSlice("SliceStop", segments)>>

SliceStop(cur, segments) ==
    IF cur \notin {"COLON", "RBRACKET"}
    THEN <<Do("comparison_expression"), DoSlice("SliceStep", segments \cup {"stop"})>>
    ELSE <<DoSlice("SliceStep", segments)>>

SliceStep(cur, segments) ==
    IF cur = "COLON" THEN <<Eat("COLON"), DoSlice("SliceStepExpr", segments)>>
    ELSE <<Goal("SliceNode", "", segments)>>

SliceStepExpr(cur, segments) ==
    IF cur \notin {"RBRACKET", "COMMA"}
    THEN <<Do("comparison_expression"), Goal("SliceNode", "", segments \cup {"step"})>>
    ELSE <<Goal("SliceNode", "", segments)>>

\* primary on a name.
PrimaryIdentStays == <<Mk("Variable")>>

PrimaryIdent == <<Advance, Mk("Variable")>>

primary(cur) ==
    IF cur = "STRING" THEN <<Advance, Mk("StringLiteral")>>
    ELSE IF cur = "INTEGER" THEN <<Advance, Mk("Number")>>
    ELSE IF cur = "LBRACKET" THEN <<Do("list_expression")>>
    ELSE IF cur = "LBRACE" THEN <<Do("dict_expression")>>
    ELSE IF cur = "IDENT" THEN PrimaryIdent
    ELSE IF cur = "LPAREN"
        THEN <<Eat("LPAREN"), Do("comparison_expression"), Eat("RPAREN"), Parenthesized>>
    ELSE <<RaiseSyntaxError>>

list_expression ==
    <<Eat("LBRACKET"), NewList, Do("Elements"), Eat("RBRACKET"), Mk("ListLiteral")>>

Elements(cur) == IF cur # "RBRACKET" THEN ExpressionList ELSE <<>>

dict_expression ==
    <<Eat("LBRACE"), NewList, Do("Pairs"), Eat("RBRACE"), Mk("DictLiteral")>>

DictPair == <<Do("comparison_expression"), Eat("COLON"), Do("comparison_expression")>>

Pairs(cur) == IF cur # "RBRACE" THEN DictPair \o <<Do("PairLoop")>> ELSE <<>>

PairLoop(cur) ==
    IF cur = "COMMA" THEN <<Eat("COMMA")>> \o DictPair \o <<Do("PairLoop")>> ELSE <<>>

\* The steps of the function or loop called name, with the current token
\* cur, in the state m.
Body(name, segments, cur, m) ==
    CASE name = "parse" -> parse(cur)
      [] name = "statement" -> statement(cur, m.pos)
      [] name = "block" -> block
      [] name = "BlockLoop" -> BlockLoop(cur)
      [] name = "ElifLoop" -> ElifLoop(cur)
      [] name = "ElseBlock" -> ElseBlock(cur)
      [] name = "Params" -> Params(cur)
      [] name = "ParamLoop" -> ParamLoop(cur)
      [] name = "Assignment" -> Assignment(cur, m.node)
      [] name = "comparison_expression" -> comparison_expression
      [] name = "ComparisonLoop" -> ComparisonLoop(cur)
      [] name = "expr" -> expr
      [] name = "ExprLoop" -> ExprLoop(cur)
      [] name = "term" -> term
      [] name = "TermLoop" -> TermLoop(cur)
      [] name = "factor" -> factor(cur)
      [] name = "call_and_index" -> call_and_index
      [] name = "PostfixLoop" -> PostfixLoop(cur)
      [] name = "Arguments" -> Arguments(cur)
      [] name = "ExpressionListLoop" -> ExpressionListLoop(cur)
      [] name = "Indexes" -> Indexes(cur)
      [] name = "IndexesLoop" -> IndexesLoop(cur)
      [] name = "parse_slice_or_expr" -> parse_slice_or_expr(cur)
      [] name = "SliceAfterStart" -> SliceAfterStart(cur, segments)
      [] name = "SliceStop" -> SliceStop(cur, segments)
      [] name = "SliceStep" -> SliceStep(cur, segments)
      [] name = "SliceStepExpr" -> SliceStepExpr(cur, segments)
      [] name = "primary" -> primary(cur)
      [] name = "list_expression" -> list_expression
      [] name = "Elements" -> Elements(cur)
      [] name = "dict_expression" -> dict_expression
      [] name = "Pairs" -> Pairs(cur)
      [] name = "PairLoop" -> PairLoop(cur)

SyntaxErr(m) == [m EXCEPT !.st = "SyntaxError", !.stack = <<>>]

advance(m) == [m EXCEPT !.pos = @ + 1]

eat(tk, m, kind) == IF Cur(tk, m) = kind THEN advance(m) ELSE SyntaxErr(m)

\* An expression node: its class, its operator token ("" when it has none)
\* and its children, in the order of the source.
Node(op, tok, args) == [op |-> op, tok |-> tok, args |-> args]

\* Where the list being collected starts in trees.
ListStart == Node("list", "", <<>>)

LastList(trees) ==
    CHOOSE k \in 1..Len(trees) :
        trees[k] = ListStart /\ \A j \in (k + 1)..Len(trees) : trees[j] # ListStart

\* trees after the node of class node is built: a literal or a name has no
\* children, a BinOp the two nodes built last (left, right), a UnaryOp and
\* an AttributeAccess the node built last, a FunctionCall and an IndexAccess
\* the node built before the list and the members of the list, a ListLiteral
\* and a DictLiteral the members.  The node of an expression in parentheses
\* is the node of the expression: "Parenthesized" wraps it only so that
\* the tokens can be read back from the tree.  An Assign and an IndexAssign
\* have the left-hand side and the expression; other statements leave trees.
Build(trees, node, tok) ==
    LET n == Len(trees)
    IN  CASE node \in {"Variable", "Number", "StringLiteral"} ->
                Append(trees, Node(node, "", <<>>))
          [] node = "BinOp" ->
                Append(SubSeq(trees, 1, n - 2), Node(node, tok, <<trees[n - 1], trees[n]>>))
          [] node \in {"Assign", "IndexAssign"} ->
                Append(SubSeq(trees, 1, n - 2), Node(node, "", <<trees[n - 1], trees[n]>>))
          [] node = "UnaryOp" ->
                Append(SubSeq(trees, 1, n - 1), Node(node, tok, <<trees[n]>>))
          [] node \in {"AttributeAccess", "Parenthesized"} ->
                Append(SubSeq(trees, 1, n - 1), Node(node, "", <<trees[n]>>))
          [] node \in {"FunctionCall", "IndexAccess"} ->
                LET k == LastList(trees)
                IN  Append(SubSeq(trees, 1, k - 2),
                           Node(node, "", <<trees[k - 1]>> \o SubSeq(trees, k + 1, n)))
          [] node \in {"ListLiteral", "DictLiteral"} ->
                LET k == LastList(trees)
                IN  Append(SubSeq(trees, 1, k - 1), Node(node, "", SubSeq(trees, k + 1, n)))
          [] OTHER -> trees

\* index_expr.append(parse_slice_or_expr())
AppendIndex(m, component) ==
    [m EXCEPT !.index_exprs[Len(m.index_exprs)] = Append(@, component)]

\* The next step of the parse.
ParserStep(tk, m) ==
    LET top == Head(m.stack)
        rest == [m EXCEPT !.stack = Tail(@)]
    IN  CASE top.g = "eat" -> eat(tk, rest, top.a)
          [] top.g = "advance" -> advance(rest)
          [] top.g = "node" ->
                [rest EXCEPT !.node = top.a, !.trees = Build(@, top.a, top.p)]
          [] top.g = "list" -> [rest EXCEPT !.trees = Append(@, ListStart)]
          [] top.g = "parenthesized" ->
                [rest EXCEPT !.trees = Build(@, "Parenthesized", "")]
          [] top.g = "raise" -> SyntaxErr(rest)
          [] top.g = "AssignNode" -> [rest EXCEPT !.stack = AssignNode(top.a) \o @]
          [] top.g = "returned" -> [rest EXCEPT !.prog = @ /\ m.pos > top.p]
          [] top.g = "append" -> [rest EXCEPT !.statements = Append(@, m.node)]
          [] top.g = "index_expr" -> [rest EXCEPT !.index_exprs = Append(@, <<>>)]
          [] top.g = "return_start" -> AppendIndex(rest, PlainIndex)
          [] top.g = "SliceNode" ->
                AppendIndex([rest EXCEPT !.node = "SliceNode"], SliceNode(top.p))
          [] top.g = "IndexAccess" ->
                [rest EXCEPT !.node = "IndexAccess",
                             !.trees = Build(@, "IndexAccess", ""),
                             !.index = m.index_exprs[Len(m.index_exprs)],
                             !.index_exprs = SubSeq(@, 1, Len(@) - 1)]
          [] top.g = "do" -> [rest EXCEPT !.stack = Body(top.a, top.p, Cur(tk, m), m) \o @]

\* The parse, run until parse returns or an error is raised, for at most f
\* steps: st is "fuel" when they are used up.
RECURSIVE Run(_, _, _)
Run(tk, m, f) ==
    IF m.st # "ok" \/ m.stack = <<>> THEN m
    ELSE IF f = 0 THEN [m EXCEPT !.st = "fuel"]
    ELSE Run(tk, ParserStep(tk, m), f - 1)

(***************************************************************************)
(* Parser(tokens, code).parse() on the token sequences tokenize can return *)
(* (one end marker, at the end): every sequence of at most MaxTokens       *)
(* tokens of any kind, and every sequence of at most MaxBlockTokens tokens *)
(* of the kinds BlockKinds that starts with "while": these kinds are       *)
(* enough for a loop with a block of statements.                           *)
(***************************************************************************)
MaxTokens == 3

MaxBlockTokens == 7

FuelPerToken == 40

TokenKinds ==
    {"IDENT", "INTEGER", "STRING", "ASSIGN", "PLUS", "MUL", "EQ", "LPAREN",
     "RPAREN", "LBRACE", "RBRACE", "LBRACKET", "RBRACKET", "COMMA", "COLON",
     "DOT", "PRINT", "FUN", "IF", "ELIF", "ELSE", "WHILE", "FOR", "IN",
     "IMPORT", "AS", "RETURN"}

BlockKinds == {"WHILE", "LPAREN", "IDENT", "RPAREN", "LBRACE", "RBRACE"}

SeqsUpTo(S, n) == UNION {[1..k -> S] : k \in 0..n}

LoopSeqs == {<<"WHILE">> \o q : q \in SeqsUpTo(BlockKinds, MaxBlockTokens - 1)}

TokenSeqs == {Append(q, "EOF") : q \in SeqsUpTo(TokenKinds, MaxTokens) \cup LoopSeqs}

TokensOf(kinds) == [i \in 1..Len(kinds) |-> Token(kinds[i], NoValue, 1)]

KindsOf(tokens) == [i \in 1..Len(tokens) |-> tokens[i].kind]

Fuel(tk) == FuelPerToken * (Len(tk) + 1)

\* tokenize has returned one of the sequences seqs.
Tokenized(seqs) ==
    /\ scopes = << "len" :> Host >>
    /\ method_context_stack = <<>>
    /\ functions = EmptyFrame
    /\ classes = <<>>
    /\ instances = <<>>
    /\ cstack = <<>>
    /\ signal = NoSignal
    /\ grad_enabled = TRUE
    /\ ev = Ev("init", NoFrame, "", None)
    /\ \E kinds \in seqs :
          frontend = [Idle EXCEPT !.stage = "tokens", !.tokens = TokensOf(kinds)]

InitParse == Tokenized(TokenSeqs)

\* statements = Parser(tokens, code).parse()
Parser_parse ==
    /\ frontend.stage = "tokens"
    /\ LET done == Run(KindsOf(frontend.tokens), Parser(frontend.tokens),
                       Fuel(frontend.tokens))
       IN  frontend' = [frontend EXCEPT
                          !.stage = IF done.st = "ok" THEN "statements" ELSE done.st,
                          !.pos = done.pos,
                          !.prog = done.prog,
                          !.statements = done.statements,
                          !.index = done.index,
                          !.trees = done.trees]
    /\ UNCHANGED <<scopes, method_context_stack, functions, classes, instances,
                   cstack, signal, ev, grad_enabled>>

NextParse == Parser_parse

SpecParse == InitParse /\ [][NextParse]_vars

(***************************************************************************)
(* Assignment statements "lhs = rhs".  The left-hand sides are a primary   *)
(* (a name, a name in parentheses, a number, a string, a list) followed by *)
(* up to MaxPostfix indexings, attribute accesses and calls, and a unary   *)
(* and three binary expressions; Form pairs the tokens with the node the   *)
(* grammar makes of them.                                                  *)
(***************************************************************************)
MaxPostfix == 2

Form(kinds, node) == [kinds |-> kinds, node |-> node]

Primaries ==
    {Form(<<"IDENT">>, "Variable"),
     Form(<<"LPAREN", "IDENT", "RPAREN">>, "Variable"),
     Form(<<"INTEGER">>, "Number"),
     Form(<<"STRING">>, "StringLiteral"),
     Form(<<"LBRACKET", "RBRACKET">>, "ListLiteral")}

Postfixes ==
    {Form(<<"LBRACKET", "INTEGER", "RBRACKET">>, "IndexAccess"),
     Form(<<"DOT", "IDENT">>, "AttributeAccess"),
     Form(<<"LPAREN", "RPAREN">>, "FunctionCall")}

RECURSIVE PostfixForms(_)
PostfixForms(n) ==
    IF n = 0 THEN Primaries
    ELSE LET shorter == PostfixForms(n - 1)
         IN  shorter \cup {Form(l.kinds \o p.kinds, p.node) : l \in shorter, p \in Postfixes}

LhsForms ==
    PostfixForms(MaxPostfix)
        \cup {Form(<<"PLUS", "IDENT">>, "UnaryOp"),
              Form(<<"IDENT", "PLUS", "IDENT">>, "BinOp"),
              Form(<<"IDENT", "MUL", "INTEGER">>, "BinOp"),
              Form(<<"IDENT", "EQ", "IDENT">>, "BinOp")}

RhsForms == {<<"INTEGER">>, <<"IDENT">>, <<"IDENT", "PLUS", "INTEGER">>}

AssignmentOf(l, r) == l.kinds \o <<"ASSIGN">> \o r \o <<"EOF">>

AssignmentSeqs == {AssignmentOf(l, r) : l \in LhsForms, r \in RhsForms}

InitAssign == Tokenized(AssignmentSeqs)

SpecAssign == InitAssign /\ [][NextParse]_vars

(***************************************************************************)
(* Instances and their fields: top-level programs that define a class      *)
(* without methods, create up to MaxObjects instances of it, bind them to  *)
(* names, copy names and assign attributes.                                *)
(***************************************************************************)
MaxObjects == 2

ObjNames == {"p", "q", "r"}

Attributes == {"f", "g"}

\* obj.fields[node.attribute] = value, on every instance of obj's class.
SetFieldOfClass(insts, i, attribute, value) ==
    [j \in 1..Len(insts) |->
        IF insts[j].klass = insts[i].klass
        THEN [insts[j] EXCEPT !.fields = (attribute :> value) @@ @]
        ELSE insts[j]]

\* obj.fields[node.attribute] = value
SetField(insts, i, attribute, value) ==
    [insts EXCEPT ![i].fields = (attribute :> value) @@ @]

\* name = K() for a class K without init.
visit_Assign_new(names) ==
    /\ Running /\ AtTopLevel
    /\ Len(instances) < MaxObjects
    /\ \E n \in names, k \in 1..Len(classes) :
          LET i == Len(instances) + 1
          IN  /\ get_variable(scopes, classes[k].name) = Cls(k)
              /\ ~find_method(k, "init").found
              /\ instances' = Append(instances, MlscriptInstance(k))
              /\ scopes' = assign_variable(scopes, n, Inst(i))
              /\ ev' = Ev("new", NoFrame, n, Inst(i))
    /\ UNCHANGED <<method_context_stack, functions, classes, cstack, signal,
                   frontend, grad_enabled>>

\* name = other, for a name other that is bound.
visit_Assign_variable(names) ==
    /\ Running /\ AtTopLevel
    /\ \E n \in names, m \in names :
          /\ get_variable(scopes, m) # Undefined
          /\ scopes' = assign_variable(scopes, n, get_variable(scopes, m))
          /\ ev' = Ev("assign", NoFrame, n, get_variable(scopes, m))
    /\ UNCHANGED <<method_context_stack, functions, classes, instances, cstack,
                   signal, frontend, grad_enabled>>

\* name.attribute = value
visit_AttributeAssign(names, attributes, values) ==
    /\ Running /\ AtTopLevel
    /\ \E n \in names, a \in attributes, v \in values :
          LET obj == get_variable(scopes, n)
          IN  IF obj.t = "inst"
              THEN /\ instances' = SetField(instances, obj.v, a, v)
                   /\ ev' = Ev("setattr", NoFrame, a, obj)
                   /\ UNCHANGED signal
              ELSE /\ signal' = RuntimeError
                   /\ ev' = Ev("raise", NoFrame, "not_an_instance", obj)
                   /\ UNCHANGED instances
    /\ UNCHANGED <<scopes, method_context_stack, functions, classes, cstack,
                   frontend, grad_enabled>>

NextObj ==
    \/ visit_ClassDef(1, {EmptyFrame})
    \/ visit_Assign_new(ObjNames)
    \/ visit_Assign_variable(ObjNames)
    \/ visit_AttributeAssign(ObjNames \cup {"A"}, Attributes, {Num(1), Num(2)})
    \/ RunAbort

SpecObj == Init /\ [][NextObj]_vars

(***************************************************************************)
(* Instantiation: programs that define up to MaxHier classes, each with no *)
(* method, with init(self) or with init(self, a), and call a class with no *)
(* argument, one positional argument or one keyword argument.              *)
(***************************************************************************)
Init0_def == FunctionDef("init", <<Param("self", NoDefault)>>)

NextNew ==
    \/ AtTopLevel /\ visit_ClassDef(MaxHier, {EmptyFrame, "init" :> Init0_def,
                                              "init" :> Init_def})
    \/ AtTopLevel /\ visit_FunctionCall_class({<<>>, <<Num(5)>>}, {<<>>, <<Kw("a", Num(5))>>})
    \/ visit_ReturnStatement(ReturnValues)
    \/ CallBodyEnd
    \/ CallHandle
    \/ RunAbort

SpecNew == Init /\ [][NextNew]_vars

(***************************************************************************)
(* Names of constructs: programs that assign the variables a, x and e,     *)
(* declare the function r(a), call it (also from its own body), loop with  *)
(* the variable x and catch with the variable e.                           *)
(***************************************************************************)
R_def == FunctionDef("r", <<Param("a", NoDefault)>>)

NextScope ==
    \/ AtTopLevel /\ visit_FunctionDef({R_def})
    \/ visit_Assign({"a", "x", "e"}, {Num(7)})
    \/ visit_FunctionCall_function({<<Num(1)>>, <<Num(2)>>}, {<<>>})
    \/ CallBodyEnd
    \/ CallHandle
    \/ visit_ForStatement("x")
    \/ ForBodyEnd
    \/ ForHandle
    \/ visit_TryCatch("e")
    \/ TryBodyEnd
    \/ TryHandle
    \/ CatchBodyEnd
    \/ CatchHandle
    \/ FinallyBodyEnd
    \/ FinallyHandle
    \/ visit_ThrowStatement(ThrowValues)
    \/ RunAbort

SpecScope == Init /\ [][NextScope]_vars

(***************************************************************************)
(* Attribute access on instances: programs that define up to MaxHier       *)
(* classes, each with or without a method f, create instances of them,     *)
(* assign the fields f and g and read the attributes f and g.              *)
(***************************************************************************)
Fm_def == FunctionDef("f", <<Param("self", NoDefault)>>)

\* MlscriptBoundMethod(instance, func_def_node, defining_class), as a value
\* and as the call it makes when called.
BoundMethod(defining_class) == [t |-> "bound", v |-> defining_class]

\* The message of the exception for an attribute that is not found.
NoAttribute(className, attribute) == [t |-> "error", v |-> <<className, attribute>>]

\* A variant of the lookup below that looks for a method first.
GetAttributeMethodFirst(i, attribute) ==
    LET obj == instances[i]
        method_tuple == find_method(obj.klass, attribute)
    IN  IF method_tuple.found THEN BoundMethod(method_tuple.cls)
        ELSE IF attribute \in DOMAIN obj.fields THEN obj.fields[attribute]
        ELSE NoAttribute(classes[obj.klass].name, attribute)

\* visit_AttributeAccess on the instance i: the field, else the method
\* found through the MRO, bound, else the error.
GetAttribute(i, attribute) ==
    LET obj == instances[i]
        method_tuple == find_method(obj.klass, attribute)
    IN  IF attribute \in DOMAIN obj.fields THEN obj.fields[attribute]
        ELSE IF method_tuple.found THEN BoundMethod(method_tuple.cls)
        ELSE NoAttribute(classes[obj.klass].name, attribute)

\* name.attribute, for a name bound to an instance.
visit_AttributeAccess(names, attributes) ==
    /\ Running /\ AtTopLevel
    /\ \E n \in names, a \in attributes :
          LET obj == get_variable(scopes, n)
              got == GetAttribute(obj.v, a)
              method_tuple == find_method(instances[obj.v].klass, a)
          IN  /\ obj.t = "inst"
              /\ signal' = IF got.t = "error" THEN RuntimeError ELSE signal
              /\ ev' = [Ev("getattr", NoFrame, a, got) EXCEPT
                          !.call = IF got.t = "bound"
                                   THEN Call("bound", MethodNode(method_tuple), <<>>,
                                             <<>>, obj.v, got.v)
                                   ELSE Call("none", FunctionDef("", <<>>), <<>>,
                                             <<>>, obj.v, 0)]
    /\ UNCHANGED <<scopes, method_context_stack, functions, classes, instances,
                   cstack, frontend, grad_enabled>>

NextAttr ==
    \/ visit_ClassDef(MaxHier, {EmptyFrame, "f" :> Fm_def})
    \/ visit_Assign_new({"p", "q"})
    \/ visit_AttributeAssign({"p", "q"}, Attributes, {Num(1)})
    \/ visit_AttributeAccess({"p", "q"}, Attributes)
    \/ RunAbort

SpecAttr == Init /\ [][NextAttr]_vars

(***************************************************************************)
(* The method context: programs that declare the function g and a          *)
(* hierarchy of classes, each with or without a method m, create an        *)
(* instance and call g, m and super.m, from the top level and from the     *)
(* bodies of g and m, which end normally, by return, by throw or by a      *)
(* runtime error.                                                          *)
(***************************************************************************)
NextContext ==
    \/ AtTopLevel /\ visit_FunctionDef({G_def})
    \/ AtTopLevel /\ visit_ClassDef(MaxHier, {EmptyFrame, "m" :> M_def})
    \/ AtTopLevel /\ visit_FunctionCall_class({<<>>}, {<<>>})
    \/ visit_FunctionCall_function({<<>>}, {<<>>})
    \/ visit_FunctionCall_method({"m"}, {<<>>}, {<<>>})
    \/ visit_FunctionCall_super({"m"}, {<<>>}, {<<>>})
    \/ CallBodyEnd
    \/ CallHandle
    \/ visit_ReturnStatement(ReturnValues)
    \/ visit_ThrowStatement(ThrowValues)
    \/ visit_Variable_undefined
    \/ RunAbort

SpecContext == Init /\ [][NextContext]_vars

(***************************************************************************)
(* Indexing "a[c1, ..., cn]" with up to MaxComponents components, each a   *)
(* plain index or a slice written with one or two colons and with or       *)
(* without each of its segments; a segment that is present is a number.    *)
(***************************************************************************)
MaxComponents == 2

Segment(present) == IF present THEN <<"INTEGER">> ELSE <<>>

\* The slice with the segments given, written with one colon (no step) or
\* with two.
SliceForm(segments, colons) ==
    [kinds |-> Segment("start" \in segments) \o <<"COLON">>
                   \o Segment("stop" \in segments)
                   \o (IF colons = 2
                       THEN <<"COLON">> \o Segment("step" \in segments) ELSE <<>>),
     component |-> SliceNode(segments)]

ComponentForms ==
    {[kinds |-> <<"INTEGER">>, component |-> PlainIndex]}
        \cup {SliceForm(segments, 1) : segments \in SUBSET {"start", "stop"}}
        \cup {SliceForm(segments, 2) : segments \in SUBSET {"start", "stop", "step"}}

ComponentLists == UNION {[1..n -> ComponentForms] : n \in 1..MaxComponents}

RECURSIVE CommaSeparated(_)
CommaSeparated(forms) ==
    IF Len(forms) = 1 THEN forms[1].kinds
    ELSE forms[1].kinds \o <<"COMMA">> \o CommaSeparated(Tail(forms))

IndexingOf(forms) ==
    <<"IDENT", "LBRACKET">> \o CommaSeparated(forms) \o <<"RBRACKET", "EOF">>

InitSlice == Tokenized({IndexingOf(forms) : forms \in ComponentLists})

SpecSlice == InitSlice /\ [][NextParse]_vars

(***************************************************************************)
(* Expression statements: Parser.parse on every sequence of at most        *)
(* MaxExprTokens tokens of the kinds ExprKinds, which are the names, the   *)
(* operators of three binary levels, the sign, and the brackets of calls,  *)
(* indexings, lists and grouping.                                          *)
(***************************************************************************)
MaxExprTokens == 5

ExprKinds ==
    {"IDENT", "PLUS", "MINUS", "MUL", "EQ", "LPAREN", "RPAREN", "DOT", "LBRACKET",
     "RBRACKET"}

ExprSeqs == {Append(q, "EOF") : q \in SeqsUpTo(ExprKinds, MaxExprTokens)}

InitExpr == Tokenized(ExprSeqs)

SpecExpr == InitExpr /\ [][NextParse]_vars

(***************************************************************************)
(* visit_WithStatement with the context manager no_grad, the one           *)
(* NoGradManager of the global scope.  __enter__ and __exit__ call         *)
(* Evaluator.set_grad_enabled; grad_enabled is the flag they gave it last, *)
(* TRUE before the first call.  __exit__ is called in the finally clause   *)
(* of visit_WithStatement, however the body ends.                          *)
(***************************************************************************)
set_grad_enabled(flag) == grad_enabled' = flag

NoGradManager_enter == set_grad_enabled(FALSE)

NoGradManager_exit == set_grad_enabled(TRUE)

WithFrame == Frame("with", "body", NoCall, "")

visit_WithStatement ==
    /\ Running /\ Room
    /\ NoGradManager_enter
    /\ cstack' = Append(cstack, WithFrame)
    /\ ev' = Ev("enter", WithFrame, "", None)
    /\ UNCHANGED <<scopes, method_context_stack, functions, classes, instances,
                   signal, frontend>>

\* The finally clause: the exception in flight, if any, goes on.
WithFinally ==
    /\ NoGradManager_exit
    /\ cstack' = Pop(cstack)
    /\ ev' = Ev("exit", Top, ExitHow(signal), signal.value)
    /\ UNCHANGED <<scopes, method_context_stack, functions, classes, instances,
                   signal, frontend>>

WithBodyEnd == Running /\ TopIs("with", "body") /\ WithFinally

WithHandle == ~Running /\ TopIs("with", "body") /\ WithFinally

(***************************************************************************)
(* Programs of with no_grad blocks, while loops and calls of g, nested to  *)
(* MaxDepth, that return, break, continue, throw and read undefined names. *)
(***************************************************************************)
NextGrad ==
    \/ AtTopLevel /\ visit_FunctionDef({G_def})
    \/ visit_WithStatement
    \/ WithBodyEnd
    \/ WithHandle
    \/ visit_FunctionCall_function({<<>>}, {<<>>})
    \/ CallBodyEnd
    \/ CallHandle
    \/ visit_WhileStatement
    \/ WhileBodyEnd
    \/ WhileHandle
    \/ visit_ReturnStatement(ReturnValues)
    \/ visit_BreakStatement
    \/ visit_ContinueStatement
    \/ visit_ThrowStatement(ThrowValues)
    \/ visit_Variable_undefined
    \/ RunAbort

SpecGrad == Init /\ [][NextGrad]_vars

(***************************************************************************)
(* Interpreter.run on one unit after another, as the REPL calls it.  The   *)
(* units are the token sequences of at most MaxUnitTokens tokens over a    *)
(* name, "=", a number and the parentheses: assignments to the name and    *)
(* expression statements that read it, hold a number or call something.    *)
(* Every name is "a", every number 1, no function is defined: a call finds *)
(* a number or an undefined name in the place of the function and raises.  *)
(* frontend.next is the position of the loop "for stmt in statements".     *)
(***************************************************************************)
MaxUnitTokens == 6

UnitKinds == {"IDENT", "ASSIGN", "INTEGER", "LPAREN", "RPAREN"}

UnitSeqs == {Append(q, "EOF") : q \in SeqsUpTo(UnitKinds, MaxUnitTokens)}

\* tokens = tokenize(code), with no unit running.
Interpreter_run_tokenize(seqs) ==
    /\ AtTopLevel /\ Running
    /\ frontend.stage = "idle"
    /\ \E kinds \in seqs :
          frontend' = [Idle EXCEPT !.stage = "tokens", !.tokens = TokensOf(kinds)]
    /\ ev' = Ev("run", NoFrame, "", None)
    /\ UNCHANGED <<scopes, method_context_stack, functions, classes, instances,
                   cstack, signal, grad_enabled>>

\* self.visit of an expression of the units: the value, Undefined when the
\* visit raises.  visit_FunctionCall visits the arguments and then the
\* callee, which is no function.
RECURSIVE Visit(_, _)
Visit(t, s) ==
    CASE t.op = "Number" -> Num(1)
      [] t.op = "Variable" -> get_variable(s, "a")
      [] t.op = "Parenthesized" -> Visit(t.args[1], s)
      [] t.op = "FunctionCall" -> Undefined
      [] OTHER -> Undefined

\* self.visit(stmt) for the statement at the loop's position, in a unit
\* whose stage is one of stages; run returns after the last statement and
\* is left by the exception of a statement that raises.
VisitNext(stages) ==
    /\ AtTopLevel /\ Running
    /\ frontend.stage \in stages
    /\ IF frontend.next > Len(frontend.trees)
       THEN /\ frontend' = [frontend EXCEPT !.stage = "returned"]
            /\ ev' = Ev("return", NoFrame, "", None)
            /\ UNCHANGED <<scopes, signal>>
       ELSE LET stmt == frontend.trees[frontend.next]
                node == IF stmt.op = "Assign" THEN stmt.args[2] ELSE stmt
                value == Visit(node, scopes)
            IN  IF value = Undefined
                THEN /\ signal' = RuntimeError
                     /\ frontend' = [frontend EXCEPT !.stage = "raised"]
                     /\ ev' = Ev("visit", NoFrame, "error", Num(frontend.next))
                     /\ UNCHANGED scopes
                ELSE /\ scopes' = IF stmt.op = "Assign"
                                  THEN assign_variable(scopes, "a", value)
                                  ELSE scopes
                     /\ frontend' = [frontend EXCEPT !.next = @ + 1]
                     /\ ev' = Ev("visit", NoFrame, "normal", Num(frontend.next))
                     /\ UNCHANGED signal
    /\ UNCHANGED <<method_context_stack, functions, classes, instances, cstack,
                   grad_enabled>>

\* run has returned or an exception has left it, and the caller has dealt
\* with the exception: the interpreter waits for the next unit.
Interpreter_run_ends ==
    /\ AtTopLevel /\ Running
    /\ frontend.stage \in {"SyntaxError", "raised", "returned"}
    /\ frontend' = Idle
    /\ ev' = Ev("idle", NoFrame, "", None)
    /\ UNCHANGED <<scopes, method_context_stack, functions, classes, instances,
                   cstack, signal, grad_enabled>>

\* A variant of the loop that also runs the statements parsed before a
\* syntax error.
Interpreter_run_visit_parsed_so_far == VisitNext({"statements", "SyntaxError"})

Interpreter_run_visit == VisitNext({"statements"})

NextRun ==
    \/ Interpreter_run_tokenize(UnitSeqs)
    \/ Parser_parse
    \/ Interpreter_run_visit
    \/ Interpreter_run_ends
    \/ RunAbort

SpecRun == Init /\ [][NextRun]_vars

(***************************************************************************)
(* Properties.                                                             *)
(***************************************************************************)
\* The parameters of call c that arguments are matched against.
NonReceiver(c) ==
    IF c.instance # 0 /\ c.func_def.params # <<>>
    THEN Tail(c.func_def.params) ELSE c.func_def.params

KwValue(kwargs, key) ==
    kwargs[CHOOSE i \in 1..Len(kwargs) : kwargs[i].key = key].value

\* C1: when a function call, a method call, a for loop or a try statement
\* finishes, the scope stack is as deep as it was immediately before the
\* statement began, on every exit path.
C1_ScopeDepthRestored ==
    (ev.op = "exit" /\ ev.kind \in {"call", "for", "try"}) => Len(scopes) = ev.d0

\* C2: when the body of a method starts, the callee's new frame maps the
\* name of the method's first declared parameter to the bound instance.
C2_ReceiverBound ==
    (ev.op = "call" /\ ev.call.instance # 0) =>
        LET self == ev.call.func_def.params[1].name
            frame == scopes[Len(scopes)]
        IN  self \in DOMAIN frame /\ frame[self] = Inst(ev.call.instance)

\* C3: a call that leaves a parameter without positional argument, keyword
\* argument and default fails with a missing-argument error: its body never
\* starts.
C3_MissingArgumentFails ==
    LET c == ev.call
        ps == NonReceiver(c)
        unbound == {i \in 1..Len(ps) : /\ i > Len(c.args)
                                       /\ ps[i].name \notin KwKeys(c.kwargs)
                                       /\ ps[i].default = NoDefault}
    IN  (ev.op \in {"call", "callerr"} /\ ev.kind = "call" /\ unbound # {}) =>
            ev.op = "callerr"

\* C4: the MRO of every class lists the class's direct parents in the
\* order of the declaration.
C4_ParentOrderKept ==
    \A k \in 1..Len(classes) :
        \A i, j \in 1..Len(classes[k].parents) :
            i < j => IndexOf(classes[k].parents[i], classes[k].mro)
                        < IndexOf(classes[k].parents[j], classes[k].mro)

\* The first class after position idx of mro that defines name, 0 if none.
FirstDefinerAfter(mro, idx, name) ==
    LET later == {j \in (idx + 1)..Len(mro) : name \in DOMAIN classes[mro[j]].methods}
    IN  IF later = {} THEN 0
        ELSE mro[CHOOSE j \in later : \A l \in later : j <= l]

\* C5: super.m inside a method of defining class K, on an instance of class
\* L, binds the m of the first class after K in L's MRO that defines m, and
\* is an error only when there is no such class.
C5_SuperBindsNextDefiner ==
    (\/ ev.op = "call" /\ ev.call.t = "super"
     \/ ev.op = "super_error" /\ ev.how # "outside_method") =>
        LET ctx == method_context_stack[ev.m0]
            mro == classes[instances[ctx[1]].klass].mro
            want == FirstDefinerAfter(mro, IndexOf(ctx[2], mro), "m")
        IN  IF want = 0 THEN ev.op = "super_error"
            ELSE ev.op = "call" /\ ev.call.defining_class = want

\* The diamond: a has no parents, b and c inherit a, d inherits b, c.
Diamond(a, b, c, d) ==
    /\ classes[a].parents = <<>>
    /\ classes[b].parents = <<a>>
    /\ classes[c].parents = <<a>>
    /\ classes[d].parents = <<b, c>>

\* C6: for every diamond a; b inherits a; c inherits a; d inherits b, c the
\* MRO of d is exactly [d, b, c, a].
C6_DiamondMRO ==
    \A a, b, c, d \in 1..Len(classes) :
        Diamond(a, b, c, d) => classes[d].mro = <<d, b, c, a>>

C6_DiamondDefined ==
    \E a, b, c, d \in 1..Len(classes) : Diamond(a, b, c, d)

\* A call that supplies every parameter at most once and leaves none
\* without a value or a default.
CleanCall(c) ==
    LET ps == NonReceiver(c)
    IN  /\ c.instance # 0 => c.func_def.params # <<>>
        /\ Len(c.args) <= Len(ps)
        /\ \A i \in 1..Len(ps) :
              /\ i <= Len(c.args) => ps[i].name \notin KwKeys(c.kwargs)
              /\ (i > Len(c.args) /\ ps[i].name \notin KwKeys(c.kwargs))
                    => ps[i].default # NoDefault
        /\ KwKeys(c.kwargs) \subseteq {ps[i].name : i \in 1..Len(ps)}

\* The value the i-th parameter of a clean call is to have: a default that
\* names an earlier parameter has the value of that parameter.
RECURSIVE Expected(_, _)
Expected(c, i) ==
    LET ps == NonReceiver(c)
        p == ps[i]
    IN  IF i <= Len(c.args) THEN c.args[i]
        ELSE IF p.name \in KwKeys(c.kwargs) THEN KwValue(c.kwargs, p.name)
        ELSE IF p.default.k = "const" THEN p.default.v
        ELSE Expected(c, CHOOSE j \in 1..(i - 1) : ps[j].name = p.default.n)

\* a + b as the body of f computes it when it starts.
SumAB == get_variable(scopes, "a").v + get_variable(scopes, "b").v

IsCallOfF(args, kwargs) ==
    ev.op = "call" /\ ev.call.func_def = F_def /\ ev.call.args = args
        /\ ev.call.kwargs = kwargs

\* C7: a clean call starts its body with every parameter bound to its
\* positional argument, else its keyword argument, else its default, in
\* whatever order the keywords are written: f(1) computes 3, f(1, 5)
\* computes 6 and f(b=9, a=1) computes 10.
C7_ParametersBound ==
    /\ (ev.op \in {"call", "callerr"} /\ ev.kind = "call" /\ CleanCall(ev.call)) =>
          /\ ev.op = "call"
          /\ \A i \in 1..Len(NonReceiver(ev.call)) :
                get_variable(scopes, NonReceiver(ev.call)[i].name)
                    = Expected(ev.call, i)
    /\ IsCallOfF(<<Num(1)>>, <<>>) => SumAB = 3
    /\ IsCallOfF(<<Num(1), Num(5)>>, <<>>) => SumAB = 6
    /\ IsCallOfF(<<>>, <<Kw("b", Num(9)), Kw("a", Num(1))>>) => SumAB = 10
    /\ IsCallOfF(<<>>, <<Kw("a", Num(1)), Kw("b", Num(9))>>) => SumAB = 10

C7_KeywordsOutOfOrder ==
    IsCallOfF(<<>>, <<Kw("b", Num(9)), Kw("a", Num(1))>>) /\ SumAB = 10

\* A call with too many positional arguments, with a keyword that names a
\* parameter bound positionally, or with a keyword that names no parameter.
BadCall(c) ==
    LET ps == NonReceiver(c)
    IN  \/ Len(c.args) > Len(ps)
        \/ \E i \in 1..Len(ps) : i <= Len(c.args) /\ ps[i].name \in KwKeys(c.kwargs)
        \/ \E key \in KwKeys(c.kwargs) : \A i \in 1..Len(ps) : ps[i].name # key

\* C8: a call with too many positional arguments, a keyword for a
\* parameter already bound positionally or a keyword that is no parameter
\* fails: the body does not start, and the scope stack and the method
\* context stack are what they were before the call.
C8_BadCallRejected ==
    [][(ev'.op \in {"call", "callerr"} /\ ev'.kind = "call" /\ BadCall(ev'.call)) =>
          /\ ev'.op = "callerr"
          /\ scopes' = scopes
          /\ method_context_stack' = method_context_stack
          /\ cstack' = cstack]_vars

C8_BadCallInsideMethod ==
    /\ ev.op = "callerr" /\ ev.how \in {"too_many", "multiple", "unexpected"}
    /\ BadCall(ev.call)
    /\ method_context_stack # <<>>
    /\ Len(scopes) > 1

\* C9: a try statement with a finally block ends only from its finally
\* block, which has then been started exactly once; the finally block
\* starts after the try body, and after the catch body when the thrown
\* value is caught.
C9_FinallyExactlyOnce ==
    /\ (ev.kind = "try" /\ ev.op = "exit" /\ ev.hasFinally) =>
          ev.pc = "finally" /\ ev.finRuns = 1
    /\ (ev.kind = "try" /\ ev.op = "finally") =>
          /\ ev.finRuns = 0
          /\ ev.pc \in {"try", "catch"}
          /\ (ev.pc = "try" /\ ev.how = "throw") => ~ev.hasCatch
    /\ \A i \in 1..Len(cstack) :
          cstack[i].kind = "try" =>
              cstack[i].finRuns = IF cstack[i].pc = "finally" THEN 1 ELSE 0

C9_FinallyAfterReturn ==
    /\ ev.kind = "try" /\ ev.op = "exit" /\ ev.hasFinally
    /\ ev.how = "return" /\ signal.kind = "return"

\* The exception in flight that the event's how and val describe.
EvSignal == IF ev.how = "normal" THEN NoSignal ELSE Signal(ev.how, ev.val)

ReturnsUnderWay(st, sig) ==
    (IF sig.kind = "return" THEN 1 ELSE 0)
        + Cardinality({i \in 1..Len(st) : st[i].pending.kind = "return"})

InsideCall == \E i \in 1..Len(cstack) : cstack[i].kind = "call"

\* A finally block ends the call its own way: a runtime error or a user throw
\* leaves it, or it executes a return of its own.
FinallyFails == TopIs("try", "finally") /\ signal.kind \in {"error", "throw", "return"}

\* C11: a return under way inside a function or method body goes away only
\* by ending the nearest enclosing call, which yields the returned value
\* (the new instance when the call is that of a class) and leaves the
\* caller's loops and try statements as they are; the one other way is a
\* finally block on the way that fails or returns itself.
C11_ReturnEndsNearestCall ==
    [][(InsideCall /\ ReturnsUnderWay(cstack', signal') < ReturnsUnderWay(cstack, signal)) =>
          \/ FinallyFails
          \/ /\ TopIs("call", "body") /\ signal.kind = "return"
             /\ cstack' = Pop(cstack)
             /\ signal' = NoSignal
             /\ ev'.op = "exit" /\ ev'.how = "return"
             /\ ev'.val = CallValue(Top.call, signal.value)]_vars

IsLoop(f) == f.kind \in {"for", "while"}

\* C12: a break or continue that reaches a loop is handled by that loop
\* alone: the break ends it, the continue starts its next iteration (or
\* ends it when there is none), and every enclosing loop is left as it is,
\* in the iteration it was in.
C12_InnermostLoopOnly ==
    [][(signal.kind \in {"break", "continue"} /\ cstack # <<>> /\ IsLoop(Top)) =>
          /\ signal' = NoSignal
          /\ Pop(cstack) = SubSeq(cstack', 1, Len(cstack) - 1)
          /\ signal.kind = "break" => cstack' = Pop(cstack)
          /\ signal.kind = "continue" =>
                \/ cstack' = Pop(cstack)
                \/ cstack' = SetTop([Top EXCEPT !.iter = @ + 1])]_vars

\* A while loop inside a for loop has just been ended by a break and the
\* for loop goes on.
C12_InnerBreakOuterGoesOn ==
    /\ ev.op = "exit" /\ ev.how = "break" /\ ev.kind = "while"
    /\ Len(cstack) = 1 /\ Top.kind = "for" /\ Top.iter >= 1
    /\ Running

\* C13: a break or continue never leaves a function or method body as a
\* break or continue: at the call boundary it has become a runtime error,
\* so that no loop of the caller is ended or advanced by it.
C13_LoopSignalStopsAtCall ==
    (ev.op = "exit" /\ ev.kind = "call" /\ ev.how \in {"break", "continue"}) =>
        signal.kind = "error"

TopScope(s) == s[Len(s)]

\* C14: a for loop enters one scope when it starts and none when it goes
\* on to its next item; the names its frame holds are still there, with
\* their values, in the next iteration (the loop variable has the new
\* item); the loop leaves exactly that one scope when it ends after its
\* last item or by break.
C14_OneFramePerLoop ==
    [][/\ (ev'.op = "enter" /\ ev'.kind = "for") =>
             /\ Len(scopes') = Len(scopes) + 1
             /\ cstack' # <<>> /\ cstack'[Len(cstack')].d0 = Len(scopes)
       /\ (ev'.op = "iter" /\ ev'.kind = "for") =>
             /\ Len(scopes') = Top.d0 + 1
             /\ Len(scopes') = Len(scopes)
             /\ \A n \in DOMAIN TopScope(scopes) :
                   /\ n \in DOMAIN TopScope(scopes')
                   /\ n # Top.var => TopScope(scopes')[n] = TopScope(scopes)[n]
             /\ get_variable(scopes', Top.var) = Num(Top.iter + 1)
       /\ (/\ ev'.op = "exit" /\ ev'.kind = "for"
           /\ cstack # <<>> /\ cstack' = Pop(cstack)
           /\ ev'.how \in {"normal", "break", "continue"}) =>
             /\ Len(scopes') = Top.d0
             /\ Len(scopes') = Len(scopes) - 1]_vars

\* The second iteration of a for loop begins and a name first assigned in
\* the body during the first iteration is in the loop's frame.
C14_SecondIterationSeesFirst ==
    /\ ev.op = "iter" /\ ev.kind = "for"
    /\ Len(cstack) = 1 /\ Top.iter = 2
    /\ Len(scopes) = 2 /\ "y" \in DOMAIN TopScope(scopes)

\* The characters that begin a lexeme: letters, digits, the double quote,
\* the operator and punctuation characters, the blank and the newline.
StartsLexeme(c) == c \in {"a", "1", "\"", "=", "/", " ", "\n"}

\* C15: when tokenize is about to match at a character that begins no
\* lexeme, it fails with a lexical error; it does not go on past it.
C15_UnknownCharacterFails ==
    [][(/\ frontend.stage = "tokenize" /\ frontend.pos <= Len(frontend.code)
        /\ ~StartsLexeme(frontend.code[frontend.pos])) =>
          frontend'.stage = "LexError"]_vars

Parsed == frontend.stage \in {"statements", "SyntaxError", "fuel"}

FieldsSeenBy(sc, insts, n) == insts[get_variable(sc, n).v].fields

BoundToInstance(sc, n) == get_variable(sc, n).t = "inst"

\* C17: an attribute assignment changes the fields of the instance it is
\* made on, in that attribute only, and of no other instance; a new
\* instance starts with fields of its own, empty, and leaves the others as
\* they are; copying a name creates no instance, and the names bound to
\* one instance see the same fields.
C17_FieldsNotShared ==
    [][/\ ev'.op = "setattr" =>
             /\ Len(instances') = Len(instances)
             /\ \A j \in 1..Len(instances) :
                   j # ev'.val.v => instances'[j] = instances[j]
             /\ \A a \in DOMAIN instances[ev'.val.v].fields :
                   a # ev'.how =>
                      /\ a \in DOMAIN instances'[ev'.val.v].fields
                      /\ instances'[ev'.val.v].fields[a] = instances[ev'.val.v].fields[a]
             /\ ev'.how \in DOMAIN instances'[ev'.val.v].fields
             /\ \A n \in ObjNames :
                   (BoundToInstance(scopes, n) /\ get_variable(scopes, n) # ev'.val) =>
                      FieldsSeenBy(scopes', instances', n) = FieldsSeenBy(scopes, instances, n)
       /\ ev'.op = "new" =>
             /\ SubSeq(instances', 1, Len(instances)) = instances
             /\ Len(instances') = Len(instances) + 1
             /\ DOMAIN instances'[Len(instances')].fields = {}
       /\ ev'.op = "assign" => instances' = instances
       /\ \A n \in ObjNames, m \in ObjNames :
             (BoundToInstance(scopes', n) /\ get_variable(scopes', n) = get_variable(scopes', m)) =>
                FieldsSeenBy(scopes', instances', n) = FieldsSeenBy(scopes', instances', m)]_vars

\* Two names are bound to one instance and a third to another instance of
\* the same class; the first has a field, assigned last, that the other
\* instance does not have.
C17_AliasedAndApart ==
    /\ ev.op = "setattr"
    /\ BoundToInstance(scopes, "p") /\ BoundToInstance(scopes, "r")
    /\ get_variable(scopes, "p") = get_variable(scopes, "q")
    /\ get_variable(scopes, "p") # get_variable(scopes, "r")
    /\ get_variable(scopes, "p") = ev.val
    /\ "f" \in DOMAIN FieldsSeenBy(scopes, instances, "q")
    /\ "f" \notin DOMAIN FieldsSeenBy(scopes, instances, "r")

\* C18: the call of a class whose MRO has an init starts the init of the
\* first class of the MRO that defines one, on a new instance, with the
\* receiver parameter bound to that instance and the call's arguments
\* bound to the other parameters, and yields the instance whatever the body
\* returns; the call of a class without init yields a new instance when it
\* has no argument and is an error when it has one.
C18_ClassCallRunsFirstInit ==
    /\ (ev.op = "call" /\ ev.call.t = "class") =>
          LET c == ev.call
              mro == classes[instances[c.instance].klass].mro
              frame == scopes[Len(scopes)]
              self == c.func_def.params[1].name
          IN  /\ c.instance = Len(instances)
              /\ DOMAIN instances[c.instance].fields = {}
              /\ c.defining_class = FirstDefinerAfter(mro, 0, "init")
              /\ c.func_def = classes[c.defining_class].methods["init"]
              /\ self \in DOMAIN frame /\ frame[self] = Inst(c.instance)
              /\ \A i \in 1..Len(c.args) :
                    LET p == c.func_def.params[i + 1].name
                    IN  p \in DOMAIN frame /\ frame[p] = c.args[i]
              /\ \A i \in 1..Len(c.kwargs) :
                    /\ c.kwargs[i].key \in DOMAIN frame
                    /\ frame[c.kwargs[i].key] = c.kwargs[i].value
    /\ (ev.op = "exit" /\ ev.call.t = "class" /\ ev.how \in {"normal", "return"}) =>
          /\ ev.val = Inst(ev.call.instance)
          /\ ev.call.instance = Len(instances)
          /\ Running
    /\ ev.op = "new" =>
          /\ ev.val = Inst(Len(instances))
          /\ FirstDefinerAfter(classes[instances[Len(instances)].klass].mro, 0, "init") = 0
          /\ DOMAIN instances[Len(instances)].fields = {}
          /\ Running
    /\ (ev.op = "callerr" /\ ev.how = "no_arguments") =>
          /\ FirstDefinerAfter(classes[ev.val.v].mro, 0, "init") = 0
          /\ signal.kind = "error"
          /\ instances = <<>>

\* C19: the parse of "lhs = rhs" is one assignment node, of the kind that
\* goes with the left-hand side: Assign for a Variable, IndexAssign for an
\* IndexAccess, AttributeAssign for an AttributeAccess; it is a parse error
\* for every other left-hand side.
C19_AssignmentByLeftHandSide ==
    Parsed =>
        \A l \in LhsForms, r \in RhsForms :
            KindsOf(frontend.tokens) = AssignmentOf(l, r) =>
                IF l.node = "Variable"
                    THEN frontend.stage = "statements" /\ frontend.statements = <<"Assign">>
                ELSE IF l.node = "IndexAccess"
                    THEN frontend.stage = "statements" /\ frontend.statements = <<"IndexAssign">>
                ELSE IF l.node = "AttributeAccess"
                    THEN /\ frontend.stage = "statements"
                         /\ frontend.statements = <<"AttributeAssign">>
                ELSE frontend.stage = "SyntaxError"


\* C20: the scope stack always holds the global frame, at the bottom: no
\* activation (call, loop, try) brings the stack below the depth it had when
\* the activation began, whether it ends normally or by a signal.
C20_ScopeStackNeverEmpty ==
    /\ Len(scopes) >= 1
    /\ "len" \in DOMAIN scopes[1]
    /\ \A i \in 1..Len(cstack) : Len(scopes) >= cstack[i].d0
    /\ ev.op = "exit" => Len(scopes) >= ev.d0

\* A signal has ended a call made at top level, and the global frame alone
\* is left.
C20_UnwoundToGlobalFrame ==
    /\ ev.op = "exit" /\ ev.kind = "call"
    /\ ev.how \in {"return", "throw", "error"}
    /\ ev.d0 = 1
    /\ cstack = <<>>
    /\ Len(scopes) = 1


\* The step binds the names of a construct: the parameters of a call that
\* starts, the variable of a for loop for its next item, the variable of a
\* catch block that starts.
BindsNames ==
    \/ ev'.op \in {"call", "catch"}
    \/ ev'.op \in {"enter", "iter"} /\ ev'.kind = "for"

\* The depth the scope stack had before the construct of the step began.
DepthBefore == IF ev'.op = "iter" THEN ev'.d0 ELSE Len(scopes)

\* C21: a step that binds the names of a construct (parameters, loop
\* variable, catch variable) binds them in the construct's own new frame:
\* every frame the scope stack had before the construct began is as it was,
\* so a variable of the same name in an enclosing frame keeps its value,
\* also across a recursive call.
C21_NamesBoundInOwnFrame ==
    [][BindsNames =>
           SubSeq(scopes', 1, DepthBefore) = SubSeq(scopes, 1, DepthBefore)]_vars


\* The parents of class k, and their parents, and so on.
RECURSIVE Ancestors(_)
Ancestors(k) ==
    LET ps == {classes[k].parents[i] : i \in 1..Len(classes[k].parents)}
    IN  ps \cup UNION {Ancestors(p) : p \in ps}

\* The MRO of class k: k first, then its ancestors, each once and nothing
\* else, every class before its own parents.
MROSound(k) ==
    LET mro == classes[k].mro
    IN  /\ mro[1] = k
        /\ {mro[i] : i \in 1..Len(mro)} = {k} \cup Ancestors(k)
        /\ \A i, j \in 1..Len(mro) : mro[i] = mro[j] => i = j
        /\ \A i \in 1..Len(mro) :
              \A p \in 1..Len(classes[mro[i]].parents) :
                  i < IndexOf(classes[mro[i]].parents[p], mro)

\* C22: the MRO of every defined class starts with the class, holds the
\* class and each of its ancestors exactly once and nothing else, and has
\* every class before that class's own parents; no step changes a class
\* that is defined, its MRO included.
C22_MROSoundAndFixed ==
    /\ [](\A k \in 1..Len(classes) : MROSound(k))
    /\ [][\A k \in 1..Len(classes) : k <= Len(classes') /\ classes'[k] = classes[k]]_vars

\* A class whose second parent inherits its first is defined, and a class
\* is defined after it.
C22_LaterClassDefined ==
    /\ Len(classes) = 4
    /\ classes[2].parents = <<1>>
    /\ classes[3].parents = <<1, 2>>
    /\ classes[3].mro = <<3, 2, 1>>
    /\ classes[4].parents = <<3>>


\* C23: obj.name on an instance yields the field name when the instance has
\* it, also when a class of its MRO has a method of that name; else the
\* method name of the first class of the MRO whose own table holds it, bound
\* to the instance with that class as defining class; else it fails with an
\* error that names the instance's class and the attribute.
C23_FieldThenMethodThenError ==
    ev.op = "getattr" =>
        LET obj == instances[ev.call.instance]
            first == FirstDefinerAfter(classes[obj.klass].mro, 0, ev.how)
        IN  IF ev.how \in DOMAIN obj.fields
                THEN ev.val = obj.fields[ev.how] /\ Running
            ELSE IF first # 0
                THEN /\ ev.val = BoundMethod(first)
                     /\ ev.call.defining_class = first
                     /\ ev.call.func_def = classes[first].methods[ev.how]
                     /\ Running
            ELSE /\ signal = RuntimeError
                 /\ ev.val = NoAttribute(classes[obj.klass].name, ev.how)

\* The field f of an instance is read, and a class of the instance's MRO
\* other than its own class has a method f.
C23_FieldShadowsInheritedMethod ==
    /\ ev.op = "getattr" /\ ev.how = "f"
    /\ ev.val = Num(1)
    /\ LET k == instances[ev.call.instance].klass
       IN  /\ "f" \notin DOMAIN classes[k].methods
           /\ FirstDefinerAfter(classes[k].mro, 0, "f") # 0


\* The throws under way: the MlscriptThrow in flight, if any, and those
\* that a try statement holds back while its finally block runs.
ThrowsUnderWay(st, sig) ==
    (IF sig.kind = "throw" THEN 1 ELSE 0)
        + Cardinality({i \in 1..Len(st) : st[i].pending.kind = "throw"})

\* A finally block fails: a runtime error or a user throw leaves it.
FinallyRaises == TopIs("try", "finally") /\ signal.kind \in {"error", "throw"}

\* C24: a throw under way goes on outward, through the blocks, loops and
\* calls around it and through the finally blocks on its way, until the
\* catch block of the nearest try statement that has one takes it, with the
\* thrown value in the catch variable, or until it leaves the top-level
\* statement sequence as an error; the one other way is a finally block on
\* the way that fails itself.
C24_ThrowGoesToNearestCatch ==
    [][ThrowsUnderWay(cstack', signal') < ThrowsUnderWay(cstack, signal) =>
          \/ FinallyRaises
          \/ /\ TopIs("try", "try") /\ signal.kind = "throw"
             /\ ev'.op = "catch" /\ ev'.hasCatch
             /\ cstack' = SetTop([Top EXCEPT !.pc = "catch"])
             /\ signal' = NoSignal
             /\ get_variable(scopes', Top.var) = signal.value
          \/ /\ AtTopLevel /\ signal.kind = "throw"
             /\ ev'.op = "abort" /\ ev'.how = "throw"]_vars


\* The (instance, defining_class) pairs of the bound methods that are
\* executing, outermost first.
RECURSIVE ContextsOf(_)
ContextsOf(st) ==
    IF st = <<>> THEN <<>>
    ELSE LET f == st[Len(st)]
             outer == ContextsOf(SubSeq(st, 1, Len(st) - 1))
         IN  IF f.kind = "call" /\ f.call.instance # 0
             THEN Append(outer, <<f.call.instance, f.call.defining_class>>)
             ELSE outer

\* C25: the method-context stack holds one (instance, defining_class) entry
\* for every bound method that is executing and nothing else, in the order
\* of the calls: a method that starts adds its entry, a method that ends, in
\* whatever way, takes it off again, and the call of a function changes
\* nothing; so the top entry is that of the innermost method that is
\* executing.
C25_ContextPerRunningMethod == method_context_stack = ContextsOf(cstack)

\* A method called from a method body has ended by a throw, and the caller,
\* whose defining class is another one, goes on to handle it.
C25_NestedMethodLeftByThrow ==
    /\ ev.op = "exit" /\ ev.kind = "call" /\ ev.how = "throw"
    /\ ev.call.instance # 0
    /\ Len(cstack) = 1 /\ cstack[1].call.instance # 0
    /\ cstack[1].call.defining_class # ev.call.defining_class
    /\ method_context_stack = <<(<<cstack[1].call.instance, cstack[1].call.defining_class>>)>>


\* C26: the parse of "a[c1, ..., cn]" is one IndexAccess whose index list
\* has, for every component in its place, a plain index when the component
\* has no colon and otherwise a slice with exactly the segments that are
\* written (the others None), whatever follows the component.
C26_ComponentsAsWritten ==
    Parsed =>
        \A forms \in ComponentLists :
            KindsOf(frontend.tokens) = IndexingOf(forms) =>
                /\ frontend.stage = "statements"
                /\ frontend.statements = <<"IndexAccess">>
                /\ frontend.index = [i \in 1..Len(forms) |-> forms[i].component]


(***************************************************************************)
(* C27.  For every expression token sequence the parser groups operators   *)
(* by precedence, comparison < additive < multiplicative < unary < postfix *)
(* (call, index, attribute), and binary operators of one level associate   *)
(* to the left.  Stated on the trees the parse leaves: read back in order, *)
(* they give the tokens of the source; the left operand of a binary        *)
(* operator is of its level or a higher one and the right operand of a     *)
(* higher one; the operand of a sign is of the unary level or higher; what *)
(* a call, an indexing or an attribute access is applied to is a postfix   *)
(* or a primary expression (lower levels appear as operands only in        *)
(* parentheses).  The four examples of the claim are checked by name.      *)
(***************************************************************************)
RECURSIVE Flatten(_)
RECURSIVE Joined(_, _)
\* The tokens of the nodes list, separated by the tokens separator.
Joined(list, separator) ==
    IF list = <<>> THEN <<>>
    ELSE IF Len(list) = 1 THEN Flatten(list[1])
    ELSE Flatten(list[1]) \o separator \o Joined(Tail(list), separator)

\* The tokens a node was built from (index components that are plain
\* indexes).
Flatten(t) ==
    CASE t.op = "Variable" -> <<"IDENT">>
      [] t.op = "Number" -> <<"INTEGER">>
      [] t.op = "StringLiteral" -> <<"STRING">>
      [] t.op = "BinOp" -> Flatten(t.args[1]) \o <<t.tok>> \o Flatten(t.args[2])
      [] t.op = "UnaryOp" -> <<t.tok>> \o Flatten(t.args[1])
      [] t.op = "AttributeAccess" -> Flatten(t.args[1]) \o <<"DOT", "IDENT">>
      [] t.op = "Parenthesized" -> <<"LPAREN">> \o Flatten(t.args[1]) \o <<"RPAREN">>
      [] t.op = "FunctionCall" ->
            Flatten(t.args[1]) \o <<"LPAREN">> \o Joined(Tail(t.args), <<"COMMA">>)
                \o <<"RPAREN">>
      [] t.op = "IndexAccess" ->
            Flatten(t.args[1]) \o <<"LBRACKET">> \o Joined(Tail(t.args), <<"COMMA">>)
                \o <<"RBRACKET">>
      [] t.op = "ListLiteral" ->
            <<"LBRACKET">> \o Joined(t.args, <<"COMMA">>) \o <<"RBRACKET">>

PostfixNodes == {"FunctionCall", "IndexAccess", "AttributeAccess"}

\* The precedence level of a node: 1 comparison, 2 additive,
\* 3 multiplicative, 4 unary, 5 postfix, 6 primary.
Level(t) ==
    IF t.op = "BinOp"
    THEN (IF t.tok = "EQ" THEN 1 ELSE IF t.tok \in {"PLUS", "MINUS"} THEN 2 ELSE 3)
    ELSE IF t.op = "UnaryOp" THEN 4
    ELSE IF t.op \in PostfixNodes THEN 5
    ELSE 6

RECURSIVE Grouped(_)
Grouped(t) ==
    /\ t.op = "BinOp" =>
          /\ Level(t.args[1]) >= Level(t)
          /\ Level(t.args[2]) > Level(t)
    /\ t.op = "UnaryOp" => Level(t.args[1]) >= 4
    /\ t.op \in PostfixNodes => Level(t.args[1]) >= 5
    /\ \A i \in 1..Len(t.args) : Grouped(t.args[i])

Name == Node("Variable", "", <<>>)

BinOp(left, op, right) == Node("BinOp", op, <<left, right>>)

UnaryOp(op, operand) == Node("UnaryOp", op, <<operand>>)

\* The expression statement with the tokens kinds, parsed, is tree.
ParsesAs(kinds, tree) ==
    (frontend.stage # "tokens" /\ KindsOf(frontend.tokens) = Append(kinds, "EOF"))
        => (frontend.stage = "statements" /\ frontend.trees = <<tree>>)

C27_GroupedByPrecedence ==
    /\ frontend.stage = "statements" =>
          /\ Len(frontend.trees) = Len(frontend.statements)
          /\ Append(Joined(frontend.trees, <<>>), "EOF") = KindsOf(frontend.tokens)
          /\ \A i \in 1..Len(frontend.trees) : Grouped(frontend.trees[i])
    /\ ParsesAs(<<"IDENT", "MINUS", "IDENT", "MINUS", "IDENT">>,
                BinOp(BinOp(Name, "MINUS", Name), "MINUS", Name))
    /\ ParsesAs(<<"IDENT", "PLUS", "IDENT", "MUL", "IDENT">>,
                BinOp(Name, "PLUS", BinOp(Name, "MUL", Name)))
    /\ ParsesAs(<<"MINUS", "IDENT", "MUL", "IDENT">>,
                BinOp(UnaryOp("MINUS", Name), "MUL", Name))
    /\ ParsesAs(<<"MINUS", "IDENT", "LPAREN", "IDENT", "RPAREN">>,
                UnaryOp("MINUS", Node("FunctionCall", "", <<Name, Name>>)))

\* "a - b - c" has been parsed as "(a - b) - c".
C27_LeftAssociated ==
    /\ frontend.stage = "statements"
    /\ KindsOf(frontend.tokens) = <<"IDENT", "MINUS", "IDENT", "MINUS", "IDENT", "EOF">>
    /\ frontend.trees = <<BinOp(BinOp(Name, "MINUS", Name), "MINUS", Name)>>


(***************************************************************************)
(* C28.  tokenize returns a sequence with exactly one end marker, which is *)
(* its last element; the line number of every token is 1 plus the number   *)
(* of newline characters before the first character of the token, and the  *)
(* line number of the end marker is 1 plus the number of newline           *)
(* characters of the whole text, also when a string literal spans a        *)
(* newline.                                                                *)
(***************************************************************************)
Newlines(code, n) == Cardinality({i \in 1..n : code[i] = "\n"})

TokenAppended ==
    /\ frontend.stage = "tokenize"
    /\ frontend'.stage = "tokenize"
    /\ Len(frontend'.tokens) = Len(frontend.tokens) + 1

TokenizeReturns == frontend.stage = "tokenize" /\ frontend'.stage = "tokens"

C28_LineCountsNewlines ==
    [][/\ TokenAppended =>
             frontend'.tokens[Len(frontend'.tokens)].line
                 = 1 + Newlines(frontend.code, frontend.pos - 1)
       /\ TokenizeReturns =>
             LET tokens == frontend'.tokens
             IN  /\ {i \in 1..Len(tokens) : tokens[i].kind = "EOF"} = {Len(tokens)}
                 /\ tokens[Len(tokens)].line
                        = 1 + Newlines(frontend.code, Len(frontend.code))]_vars


(***************************************************************************)
(* C29.  While the body of a with no_grad block is executing, gradient     *)
(* tracking is disabled, also in the part of an outer block's body that    *)
(* runs after a nested block has exited; when no block is open any more,   *)
(* however the outermost one was left, tracking is enabled.                *)
(***************************************************************************)
InNoGradBody == \E i \in 1..Len(cstack) : cstack[i].kind = "with"

C29_DisabledInsideNoGrad == InNoGradBody <=> ~grad_enabled


(***************************************************************************)
(* C30.  Interpreter.run tokenizes and parses the whole unit before it     *)
(* executes anything.  A statement is visited only in a unit that parse    *)
(* has returned for, with the cursor on the end marker; every other step,  *)
(* the parse that fails among them, leaves the variables, the function     *)
(* table, the classes, the instances and the stacks as they are.  The      *)
(* statements are visited in the order of the list, from the first, one    *)
(* position at a time; a statement that raises ends the run with the       *)
(* variables as the statements before it left them, and none after it is   *)
(* visited.                                                                *)
(***************************************************************************)
InterpreterState ==
    <<scopes, functions, classes, instances, method_context_stack, cstack>>

StatementVisited ==
    /\ frontend.stage = "statements"
    /\ frontend.next <= Len(frontend.statements)
    /\ frontend' # frontend

C30_ParsedBeforeExecuted ==
    /\ [](frontend.stage \in {"statements", "raised", "returned"} =>
             /\ frontend.pos = Len(frontend.tokens)
             /\ frontend.next <= Len(frontend.statements) + 1)
    /\ [](frontend.stage \in {"tokens", "SyntaxError"} => frontend.next = 1)
    /\ [](frontend.stage = "raised" => frontend.next <= Len(frontend.statements))
    /\ [][frontend.stage # "statements" => UNCHANGED InterpreterState]_vars
    /\ [][frontend'.stage = "statements" /\ frontend.stage # "statements" =>
              frontend'.next = 1]_vars
    /\ [][StatementVisited =>
              /\ ev'.op = "visit" /\ ev'.val = Num(frontend.next)
              /\ \/ /\ frontend'.stage = "statements"
                    /\ frontend'.next = frontend.next + 1
                    /\ signal' = NoSignal
                 \/ /\ frontend'.stage = "raised"
                    /\ frontend'.next = frontend.next
                    /\ signal' # NoSignal
                    /\ UNCHANGED InterpreterState]_vars

\* The second of two statements has raised, and the assignment before it
\* has left its value.
C30_RaisedAfterAssignment ==
    /\ frontend.stage = "raised"
    /\ KindsOf(frontend.tokens)
           = <<"IDENT", "ASSIGN", "INTEGER", "IDENT", "LPAREN", "RPAREN", "EOF">>
    /\ frontend.statements = <<"Assign", "FunctionCall">>
    /\ frontend.next = 2
    /\ get_variable(scopes, "a") = Num(1)

====================================================================
